---------------------------- MODULE Spec2Model ----------------------------
(***************************************************************************)
(* Model of the request-throttling, retry, pagination and batched-mutation *)
(* core of gmail-stats.py and sender_mail_cleaner.py.                      *)
(*                                                                         *)
(* Durations are fixed-point integers in units of 10 ms (0.05 s = 5,       *)
(* 8.0 s = 800).  The float product current_delay * 0.85 is computed as    *)
(* (d * 85) \div 100, i.e. rounded down to the unit; the product by the    *)
(* backoff factor 2.0 is exact.                                            *)
(***************************************************************************)
EXTENDS Integers, Sequences, FiniteSets, TLC

VARIABLES
    CONFIG,      \* gmail-stats.py CONFIG dict (the keys the core reads)
    throttler,   \* AdaptiveThrottler instance fields
    th,          \* observation of the throttle's calls (history, not program state)
    analyzer,    \* GmailAnalyzer counters: total_processed, total_errors
    stats,       \* GmailCleanerPro.stats
    rc,          \* the retrying caller being run: its locals and what it has done
    pg,          \* the paginator being run: the backend's pages, its locals
    bt,          \* trash_emails_batch being run: its arguments and locals
    ia           \* trash_emails_interactive being run: its arguments and locals

vars == <<CONFIG, throttler, th, analyzer, stats, rc, pg, bt, ia>>
thrVars == <<CONFIG, throttler, th>>
procVars == <<analyzer, stats, rc>>

Max(a, b) == IF a >= b THEN a ELSE b
Min(a, b) == IF a <= b THEN a ELSE b

RECURSIVE Pow2(_)
Pow2(k) == IF k <= 0 THEN 1 ELSE 2 * Pow2(k - 1)

\* the ids a..b in order
Range(a, b) == [j \in 1..(b - a + 1) |-> a + j - 1]

(***************************************************************************)
(* Bounds of the model.                                                    *)
(***************************************************************************)
MaxConsecutiveFailures == 4   \* cap on the unbounded consecutive_failures counter
MaxItems == 2                 \* longest work list given to a retrying caller
MaxPages == 3                 \* most pages a listing has
MaxPageSize == 2              \* most items on one page
MaxCap == 4                   \* largest --max-emails tried
MaxBatchItems == 25           \* longest list given to trash_emails_batch
MaxBatchSize == 10            \* largest batch_delete_size configured
MaxSubErrors == 1
MaxInteractiveItems == 11
MaxBackupFailures == 1
MaxRoundItems == 2
MaxRounds == 2
MaxChunkItems == 5
MaxSearches == 2              \* most searches of one process
MaxFindItems == 3             \* most ids one search lists
MaxDate == 2                  \* latest message date
MaxChunkSize == 2             \* most sub-requests of one batch reported failed

(***************************************************************************)
(* gmail-stats.py CONFIG defaults and presets, in units of 10 ms.          *)
(***************************************************************************)
DefaultInitialDelay == 5        \* 'initial_delay': 0.05
DefaultMaxDelay == 800          \* 'max_delay': 8.0
BackoffFactor == 2              \* 'backoff_factor': 2.0
SuccessReductionPct == 85       \* 'success_reduction': 0.85
DefaultSuccessThreshold == 5    \* 'success_threshold': 5
TurboInitialDelay == 2          \* turbo: initial_delay = 0.02
TurboSuccessThreshold == 3      \* turbo: success_threshold = 3
ConservativeInitialDelay == 20  \* conservative: initial_delay = 0.2
ConservativeSuccessThreshold == 10  \* conservative: success_threshold = 10
ConservativeMaxDelay == 1500    \* conservative: max_delay = 15.0

StatsMaxRetries == 3            \* gmail-stats CONFIG 'max_retries': 3
CleanerMaxRetries == 5          \* cleaner DEFAULT_CONFIG 'max_retries': 5
DelayBetweenRequests == 10      \* cleaner DEFAULT_CONFIG 'delay_between_requests': 0.1
SleepAfterList == 20            \* cleaner DEFAULT_CONFIG 'sleep_after_list': 0.2
InitialBackoff == 100           \* cleaner DEFAULT_CONFIG 'initial_backoff': 1.0
MaxBackoff == 6000              \* cleaner DEFAULT_CONFIG 'max_backoff': 60.0
ExtraWaitStep == 200            \* gmail-stats `2 * retry_count` seconds
DefaultChunkSize == 15          \* gmail-stats CONFIG 'chunk_size': 15
TurboChunkSize == 20            \* --turbo: CONFIG['chunk_size'] = 20
ConservativeChunkSize == 8      \* --conservative: CONFIG['chunk_size'] = 8
SnapshotEvery == 5              \* gmail-stats `processed_chunks % 5 == 0`
MinBatchCount == 10             \* cleaner `len(messages_to_delete) >= 10`
ExtraWaitCap == 2000            \* gmail-stats `min(20, ...)` seconds

\* Values of --initial-delay / --max-delay tried; 0 stands for "not given"
\* (None) and for 0.0, which `if args.initial_delay:` treats alike.
ArgInitialDelays == {0, 100, 1000}
ArgMaxDelays == {0, 100}

\* main(): CONFIG after the command-line overrides and the mode presets.
main_config(argInitialDelay, argMaxDelay, turbo, conservative) ==
    LET c0 == [initial_delay |-> DefaultInitialDelay,
               max_delay |-> DefaultMaxDelay,
               success_threshold |-> DefaultSuccessThreshold,
               turbo_mode |-> FALSE,
               adaptive_throttling |-> TRUE,
               chunk_size |-> DefaultChunkSize]
        c1 == IF argInitialDelay # 0
                THEN [c0 EXCEPT !.initial_delay = argInitialDelay] ELSE c0
        c2 == IF argMaxDelay # 0
                THEN [c1 EXCEPT !.max_delay = argMaxDelay] ELSE c1
    IN  IF turbo
          THEN [c2 EXCEPT !.turbo_mode = TRUE,
                          !.chunk_size = TurboChunkSize,
                          !.initial_delay = TurboInitialDelay,
                          !.success_threshold = TurboSuccessThreshold]
          ELSE IF conservative
            THEN [c2 EXCEPT !.initial_delay = ConservativeInitialDelay,
                            !.chunk_size = ConservativeChunkSize,
                            !.success_threshold = ConservativeSuccessThreshold,
                            !.max_delay = ConservativeMaxDelay]
            ELSE c2

\* AdaptiveThrottler.__init__
AdaptiveThrottler(cfg) ==
    [current_delay |-> cfg.initial_delay,
     consecutive_successes |-> 0,
     consecutive_failures |-> 0]

\* a success_reduction of 1.0: no reduction (a mutation of reduced)
reduced_not(d) == d

\* current_delay * CONFIG['success_reduction']
reduced(d) == (d * SuccessReductionPct) \div 100

\* on_success with the threshold test written `>` (a mutation of on_success)
on_success_gt(t, cfg) ==
    LET s == t.consecutive_successes + 1
    IN  IF s > cfg.success_threshold
          THEN [current_delay |-> Max(cfg.initial_delay, reduced(t.current_delay)),
                consecutive_successes |-> 0,
                consecutive_failures |-> 0]
          ELSE [t EXCEPT !.consecutive_successes = s, !.consecutive_failures = 0]

\* on_success that changes the delay on every call (a mutation of on_success)
on_success_every_call(t, cfg) ==
    [current_delay |-> Max(cfg.initial_delay, reduced(t.current_delay)),
     consecutive_successes |->
        IF t.consecutive_successes + 1 >= cfg.success_threshold
          THEN 0 ELSE t.consecutive_successes + 1,
     consecutive_failures |-> 0]

\* on_success that lowers the delay at the threshold but keeps counting the
\* streak (a mutation)
on_success_no_reset(t, cfg) ==
    LET s == t.consecutive_successes + 1
    IN  IF s >= cfg.success_threshold
          THEN [current_delay |-> Max(cfg.initial_delay, reduced(t.current_delay)),
                consecutive_successes |-> s,
                consecutive_failures |-> 0]
          ELSE [t EXCEPT !.consecutive_successes = s, !.consecutive_failures = 0]

\* AdaptiveThrottler.on_success
on_success(t, cfg) ==
    LET s == t.consecutive_successes + 1
    IN  IF s >= cfg.success_threshold
          THEN [current_delay |-> Max(cfg.initial_delay, reduced(t.current_delay)),
                consecutive_successes |-> 0,
                consecutive_failures |-> 0]
          ELSE [t EXCEPT !.consecutive_successes = s, !.consecutive_failures = 0]

\* on_rate_limit that forgets to reset the success streak (a mutation)
on_rate_limit_keep_streak(t, cfg) ==
    [t EXCEPT !.consecutive_failures = @ + 1,
              !.current_delay = Min(cfg.max_delay, @ * BackoffFactor)]

\* AdaptiveThrottler.on_rate_limit
on_rate_limit(t, cfg) ==
    [current_delay |-> Min(cfg.max_delay, t.current_delay * BackoffFactor),
     consecutive_successes |-> 0,
     consecutive_failures |-> t.consecutive_failures + 1]

\* wait() that ignores turbo mode (a mutation of wait_duration)
wait_duration_no_turbo(t, cfg) == t.current_delay

\* AdaptiveThrottler.wait: the duration slept
wait_duration(t, cfg) ==
    IF cfg.turbo_mode THEN Max(1, t.current_delay \div 2) ELSE t.current_delay

(***************************************************************************)
(* The throttle alone, driven by any sequence of its calls.                *)
(*   th.op          the last call made                                     *)
(*   th.prev        the throttle's fields before the last call             *)
(*   th.streakBase  current_delay when the running success streak began    *)
(*                  from consecutive_successes = 0                         *)
(*   th.streakLen   on_success calls made in that streak                   *)
(*   th.failBase    current_delay when the running failure streak began    *)
(*   th.slept       the duration slept when the last call was wait(), else 0 *)
(***************************************************************************)
\* GmailAnalyzer.__init__: the counters
GmailAnalyzer == [total_processed |-> 0, total_errors |-> 0]

\* GmailCleanerPro.__init__: self.stats
GmailCleanerPro ==
    [found |-> 0, trashed |-> 0, errors |-> 0, skipped |-> 0, backed_up |-> 0]

\* No retrying caller is running.
NoCaller ==
    [caller |-> "none", n |-> 0, idx |-> 0, pc |-> "idle", retry_count |-> 0,
     calls |-> 0, first |-> "none", last |-> "none", all429 |-> TRUE,
     result |-> FALSE, itemState |-> "NONE", backoff |-> 0, backoff_time |-> 0,
     attempted |-> 0, extracted |-> <<>>, trace |-> <<>>, extra_wait |-> 0,
     items |-> <<>>, fed |-> <<>>,
     before |-> [ok |-> 0, err |-> 0, extracted |-> <<>>]]

ProcIdle == analyzer = GmailAnalyzer /\ stats = GmailCleanerPro /\ rc = NoCaller

\* No paginator is running.
NoPaginator ==
    [who |-> "none", pages |-> <<>>, max_emails |-> <<>>, page_token |-> 0,
     all_messages |-> <<>>, pc |-> "idle", requests |-> 0, failedAt |-> 0,
     failure |-> "none", i |-> 0, processed_chunks |-> 0, chunks |-> <<>>,
     snapshots |-> <<>>, sent |-> 0, returned |-> 0, prevReturned |-> 0,
     lastEmpty |-> FALSE, slept |-> 0, main |-> "running", report |-> <<>>,
     search |-> 0, ids |-> <<>>, fetched |-> <<>>, messages_cache |-> <<>>,
     result |-> <<>>, earlier |-> {}]

\* trash_emails_batch is not running.
NoBatch ==
    [n |-> 0, batch_size |-> 1, i |-> 0, pc |-> "idle", batches |-> <<>>,
     trashed_count_in_batch |-> 0, raised |-> 0, okItems |-> 0,
     raisedItems |-> 0, subErrors |-> 0, last |-> "none", slept |-> 0,
     before |-> GmailCleanerPro]

\* trash_emails_interactive is not running.
NoInteractive ==
    [total |-> 0, dry_run |-> FALSE, use_batch_delete |-> TRUE, pc |-> "idle",
     action |-> "none", keep_count |-> 0, to_delete |-> 0, skipped_count |-> 0,
     path |-> "none", round |-> 0, before |-> GmailCleanerPro]

ThInit ==
    /\ ProcIdle
    /\ pg = NoPaginator
    /\ bt = NoBatch
    /\ ia = NoInteractive
    /\ \E ai \in ArgInitialDelays, am \in ArgMaxDelays, tu \in BOOLEAN, co \in BOOLEAN :
          CONFIG = main_config(ai, am, tu, co)
    /\ throttler = AdaptiveThrottler(CONFIG)
    /\ th = [op |-> "init", prev |-> throttler,
             streakBase |-> throttler.current_delay, streakLen |-> 0,
             failBase |-> throttler.current_delay, slept |-> 0]

OnSuccess ==
    /\ throttler' = on_success(throttler, CONFIG)
    /\ th' = [th EXCEPT !.op = "success", !.prev = throttler,
                        !.streakBase = IF throttler.consecutive_successes = 0
                                         THEN throttler.current_delay ELSE @,
                        !.streakLen = IF throttler.consecutive_successes = 0
                                        THEN 1 ELSE @ + 1,
                        !.failBase = throttler'.current_delay,
                        !.slept = 0]
    /\ UNCHANGED <<CONFIG, procVars, pg, bt, ia>>

OnRateLimit ==
    /\ throttler.consecutive_failures < MaxConsecutiveFailures
    /\ throttler' = on_rate_limit(throttler, CONFIG)
    /\ th' = [th EXCEPT !.op = "rate_limit", !.prev = throttler,
                        !.streakBase = throttler'.current_delay,
                        !.streakLen = 0,
                        !.failBase = IF throttler.consecutive_failures = 0
                                       THEN throttler.current_delay ELSE @,
                        !.slept = 0]
    /\ UNCHANGED <<CONFIG, procVars, pg, bt, ia>>

Wait ==
    /\ th' = [th EXCEPT !.op = "wait", !.prev = throttler,
                        !.slept = wait_duration(throttler, CONFIG)]
    /\ UNCHANGED <<CONFIG, throttler, procVars, pg, bt, ia>>

ThNext == OnSuccess \/ OnRateLimit \/ Wait

SpecThrottle == ThInit /\ [][ThNext]_vars

\* The throttle in a run whose calls keep succeeding: the caller's loop goes
\* on to its next item as long as there is one, so on_success() is not
\* put off for ever.
SpecThrottleFair == SpecThrottle /\ WF_vars(OnSuccess)

(***************************************************************************)
(* The retrying callers.  One run takes a work list of rc.n items and      *)
(* feeds them, in order, to one of                                         *)
(*   "stats"  GmailAnalyzer._process_single_message        (gmail-stats)   *)
(*   "meta"   GmailCleanerPro.get_message_metadata_with_retry              *)
(*   "trash"  GmailCleanerPro.trash_single_message_with_retry              *)
(* The backend answers each remote call with one of Outcomes: "ok", an     *)
(* HttpError of status 429, 403, 500, 503 or some other status ("s404"),   *)
(* or an exception that is not an HttpError ("exc").                       *)
(*   rc.pc          "idle" before the first item, "pending" inside the     *)
(*                  retry loop, "returned" when the caller has returned    *)
(*   rc.calls       remote invocations made for the current item           *)
(*   rc.first/last  outcome of the first / latest invocation for the item  *)
(*   rc.all429      every invocation for the item so far answered 429      *)
(*   rc.before      the success and error counters when the item began     *)
(*   rc.backoff     the un-jittered exponential_backoff delay slept after  *)
(*                  the latest call, 0 if none was                         *)
(*   rc.backoff_time  the delay slept after the latest call: what          *)
(*                  exponential_backoff returned, jitter included          *)
(* random.random() is drawn from JitterDraws, in hundredths.               *)
(*   rc.pc          "idle" before the first item, "pending" inside an      *)
(*                  item's retry loop, "returned" when the caller has      *)
(*                  returned, "finished" when the driver's loop has ended  *)
(*   rc.items       the work list the driver loops over (rc.n its length)  *)
(*   rc.fed         the messages handed to the caller so far, in order     *)
(*   rc.attempted   items for which the remote operation was invoked       *)
(*   rc.extracted   the items whose data the run holds, in order: the      *)
(*                  senders counted by _extract_sender_info, the entries   *)
(*                  of messages_cache                                      *)
(*   rc.trace       what the latest iteration of _process_single_message   *)
(*                  did, in order                                          *)
(*   rc.extra_wait  the extra sleep of that iteration after a 429, else 0  *)
(***************************************************************************)
Outcomes == {"ok", "s429", "s403", "s500", "s503", "s404", "exc"}
HttpErrors == {"s429", "s403", "s500", "s503", "s404"}
Callers == {"stats", "meta", "trash"}

\* `retry_count <= CONFIG['max_retries']` with max_retries one too large
\* (a mutation of within_max_retries)
within_max_retries_plus_one(retry_count) == retry_count <= StatsMaxRetries + 1

\* gmail-stats: `retry_count <= CONFIG['max_retries']`, the loop condition
\* and the test after a 429
within_max_retries(retry_count) == retry_count <= StatsMaxRetries

\* the loop condition written with `<=` (a mutation of cleaner_loop_guard)
cleaner_loop_guard_inclusive(retry_count) == retry_count <= CleanerMaxRetries

\* cleaner: `retry_count < self.config['max_retries']`, the loop condition
cleaner_loop_guard(retry_count) == retry_count < CleanerMaxRetries

\* cleaner, metadata fetch: `e.resp.status in [429, 403, 500, 503]`
meta_retryable(o) == o \in {"s429", "s403", "s500", "s503"}

\* the deletion's status test widened to every HttpError (a mutation of
\* trash_retryable)
trash_retryable_any_status(o) == o \in HttpErrors

\* cleaner, deletion: `e.resp.status in [429, 403]`
trash_retryable(o) == o \in {"s429", "s403"}

\* GmailCleanerPro.exponential_backoff without its jitter term
backoff_base(attempt) == Min(InitialBackoff * Pow2(attempt), MaxBackoff)

\* values of random.random(), in hundredths (it draws from [0, 1))
JitterDraws == {0, 25, 50, 75, 99}

\* GmailCleanerPro.exponential_backoff when random.random() returns r / 100:
\* delay + delay * 0.2 * (random.random() - 0.5)
exponential_backoff(attempt, r) ==
    LET delay == backoff_base(attempt)
    IN  delay + (delay * 2 * (r - 50)) \div 1000

\* The success and error counters the running caller writes.
SuccessCount ==
    IF rc.caller = "stats" THEN analyzer.total_processed ELSE stats.trashed
ErrorCount ==
    IF rc.caller = "stats" THEN analyzer.total_errors ELSE stats.errors

ProcInit ==
    \* CONFIG['adaptive_throttling'] is True in the source and has no
    \* command-line switch; False is the dictionary edited by hand
    /\ \E a \in BOOLEAN :
          CONFIG = [main_config(0, 0, FALSE, FALSE) EXCEPT !.adaptive_throttling = a]
    /\ throttler = AdaptiveThrottler(CONFIG)
    /\ th = [op |-> "init", prev |-> throttler,
             streakBase |-> throttler.current_delay, streakLen |-> 0,
             failBase |-> throttler.current_delay, slept |-> 0]
    /\ analyzer = GmailAnalyzer
    /\ stats = GmailCleanerPro
    /\ \E c \in Callers, n \in 0..MaxItems :
          /\ rc = [NoCaller EXCEPT !.caller = c, !.n = n, !.items = Range(1, n)]
          /\ c # "stats" => CONFIG.adaptive_throttling
    /\ pg = NoPaginator
    /\ bt = NoBatch
    /\ ia = NoInteractive

\* a driver loop that runs its body once more than the list has items
\* (a mutation of has_next)
has_next_one_more(idx, n) == idx <= n

\* `for msg in messages` / `for msg in all_message_ids` /
\* `for _, msg_id, _ in messages_to_delete`: an item is left
has_next(idx, n) == idx < n

\* The item the for loop hands out after idx items (0 when the list has no
\* further item).
next_item(items, idx) == IF idx < Len(items) THEN items[idx + 1] ELSE 0

\* A driver that goes on to the next item only after a success (a mutation
\* of StartItem).
StartItemUnlessFailed ==
    /\ rc.pc = "idle" \/ (rc.pc = "returned" /\ rc.result)
    /\ has_next(rc.idx, rc.n)
    /\ rc' = [rc EXCEPT !.idx = @ + 1, !.pc = "pending", !.retry_count = 0,
                        !.fed = Append(@, next_item(rc.items, rc.idx)),
                        !.calls = 0, !.first = "none", !.last = "none",
                        !.all429 = TRUE, !.result = FALSE,
                        !.itemState = "PENDING", !.backoff = 0,
                        !.backoff_time = 0,
                        !.trace = <<>>, !.extra_wait = 0,
                        !.before = [ok |-> SuccessCount, err |-> ErrorCount,
                                    extracted |-> rc.extracted]]
    /\ UNCHANGED <<thrVars, analyzer, stats, pg, bt, ia>>

\* The driver (_process_chunk, find_emails_by_criteria, the one-by-one loop of
\* trash_emails_interactive) calls the retrying caller for the next item.
StartItem ==
    /\ rc.pc \in {"idle", "returned"}
    /\ has_next(rc.idx, rc.n)
    /\ rc' = [rc EXCEPT !.idx = @ + 1, !.pc = "pending", !.retry_count = 0,
                        !.fed = Append(@, next_item(rc.items, rc.idx)),
                        !.calls = 0, !.first = "none", !.last = "none",
                        !.all429 = TRUE, !.result = FALSE,
                        !.itemState = "PENDING", !.backoff = 0,
                        !.backoff_time = 0,
                        !.trace = <<>>, !.extra_wait = 0,
                        !.before = [ok |-> SuccessCount, err |-> ErrorCount,
                                    extracted |-> rc.extracted]]
    /\ UNCHANGED <<thrVars, analyzer, stats, pg, bt, ia>>

\* The driver's loop has no item left: the run is over.
FinishRun ==
    /\ rc.caller \in Callers
    /\ rc.pc \in {"idle", "returned"}
    /\ ~has_next(rc.idx, rc.n)
    /\ rc' = [rc EXCEPT !.pc = "finished"]
    /\ UNCHANGED <<thrVars, analyzer, stats, pg, bt, ia>>

\* rc after one more remote invocation answered o
called(o) ==
    [rc EXCEPT !.calls = @ + 1,
               !.first = IF rc.calls = 0 THEN o ELSE @,
               !.last = o,
               !.all429 = @ /\ o = "s429",
               !.attempted = IF rc.calls = 0 THEN @ + 1 ELSE @,
               !.backoff = 0, !.backoff_time = 0]

\* wait() called before the invocation whatever the configuration says
\* (a mutation of pre_call)
pre_call_always(cfg) == <<"wait">>

\* `if CONFIG['adaptive_throttling']: self.throttler.wait()`
pre_call(cfg) == IF cfg.adaptive_throttling THEN <<"wait">> ELSE <<>>

\* a fixed extra wait of 2 seconds (a mutation of extra_wait)
extra_wait_fixed(retry_count) == ExtraWaitStep

\* `extra_wait = min(20, 2 * retry_count)`
extra_wait(retry_count) == Min(ExtraWaitCap, ExtraWaitStep * retry_count)

\* _process_single_message that gives up after its last 429 without
\* counting an error (a mutation of AttemptStats).
AttemptStatsSilentExhaustion(o) ==
    /\ rc.caller = "stats" /\ rc.pc = "pending"
    /\ UNCHANGED <<CONFIG, th, stats, pg, bt, ia>>
    /\ LET did == [called(o) EXCEPT !.trace = pre_call(CONFIG) \o <<"get">>,
                                     !.extra_wait = 0]
       IN
       CASE o = "ok" ->
              /\ throttler' = on_success(throttler, CONFIG)
              /\ analyzer' = [analyzer EXCEPT !.total_processed = @ + 1]
              /\ rc' = [did EXCEPT !.pc = "returned", !.result = TRUE,
                                    !.itemState = "SUCCESS",
                                    !.trace = @ \o <<"on_success", "extract">>,
                                    !.extracted = Append(@, rc.idx)]
         [] o = "s429" ->
              /\ throttler' = on_rate_limit(throttler, CONFIG)
              /\ IF within_max_retries(rc.retry_count + 1)
                   THEN /\ UNCHANGED analyzer
                        \* time.sleep(extra_wait), then the loop condition;
                        \* when it fails the function ends in `return False`
                        /\ IF within_max_retries(rc.retry_count + 1)
                             THEN rc' = [did EXCEPT
                                            !.retry_count = @ + 1,
                                            !.trace = @ \o <<"on_rate_limit", "sleep">>,
                                            !.extra_wait = extra_wait(rc.retry_count + 1)]
                             ELSE rc' = [did EXCEPT
                                            !.retry_count = @ + 1,
                                            !.trace = @ \o <<"on_rate_limit", "sleep">>,
                                            !.extra_wait = extra_wait(rc.retry_count + 1),
                                            !.pc = "returned",
                                            !.itemState = "RATE_LIMITED_EXHAUSTED"]
                   ELSE /\ UNCHANGED analyzer
                        /\ rc' = [did EXCEPT
                                     !.retry_count = @ + 1,
                                     !.trace = @ \o <<"on_rate_limit">>,
                                     !.pc = "returned",
                                     !.itemState = "RATE_LIMITED_EXHAUSTED"]
         [] OTHER ->
              /\ analyzer' = [analyzer EXCEPT !.total_errors = @ + 1]
              /\ rc' = [did EXCEPT !.pc = "returned",
                                    !.itemState = "NON_RETRYABLE"]
              /\ UNCHANGED throttler

\* One iteration of the loop of _process_single_message: wait, call, and the
\* handling of the outcome.
AttemptStats(o) ==
    /\ rc.caller = "stats" /\ rc.pc = "pending"
    /\ UNCHANGED <<CONFIG, th, stats, pg, bt, ia>>
    /\ LET did == [called(o) EXCEPT !.trace = pre_call(CONFIG) \o <<"get">>,
                                     !.extra_wait = 0]
       IN
       CASE o = "ok" ->
              /\ throttler' = on_success(throttler, CONFIG)
              /\ analyzer' = [analyzer EXCEPT !.total_processed = @ + 1]
              /\ rc' = [did EXCEPT !.pc = "returned", !.result = TRUE,
                                    !.itemState = "SUCCESS",
                                    !.trace = @ \o <<"on_success", "extract">>,
                                    !.extracted = Append(@, rc.idx)]
         [] o = "s429" ->
              /\ throttler' = on_rate_limit(throttler, CONFIG)
              /\ IF within_max_retries(rc.retry_count + 1)
                   THEN /\ UNCHANGED analyzer
                        \* time.sleep(extra_wait), then the loop condition;
                        \* when it fails the function ends in `return False`
                        /\ IF within_max_retries(rc.retry_count + 1)
                             THEN rc' = [did EXCEPT
                                            !.retry_count = @ + 1,
                                            !.trace = @ \o <<"on_rate_limit", "sleep">>,
                                            !.extra_wait = extra_wait(rc.retry_count + 1)]
                             ELSE rc' = [did EXCEPT
                                            !.retry_count = @ + 1,
                                            !.trace = @ \o <<"on_rate_limit", "sleep">>,
                                            !.extra_wait = extra_wait(rc.retry_count + 1),
                                            !.pc = "returned",
                                            !.itemState = "RATE_LIMITED_EXHAUSTED"]
                   ELSE /\ analyzer' = [analyzer EXCEPT !.total_errors = @ + 1]
                        /\ rc' = [did EXCEPT
                                     !.retry_count = @ + 1,
                                     !.trace = @ \o <<"on_rate_limit">>,
                                     !.pc = "returned",
                                     !.itemState = "RATE_LIMITED_EXHAUSTED"]
         [] OTHER ->
              /\ analyzer' = [analyzer EXCEPT !.total_errors = @ + 1]
              /\ rc' = [did EXCEPT !.pc = "returned",
                                    !.itemState = "NON_RETRYABLE"]
              /\ UNCHANGED throttler

\* One iteration of the loop of get_message_metadata_with_retry; when it
\* returns a result, find_emails_by_criteria appends it to messages_cache.
AttemptMeta(o, r) ==
    /\ rc.caller = "meta" /\ rc.pc = "pending"
    /\ ~(o \in HttpErrors /\ meta_retryable(o)) => r = 50
    /\ UNCHANGED <<thrVars, analyzer, pg, bt, ia>>
    /\ CASE o = "ok" ->
              /\ rc' = [called(o) EXCEPT !.pc = "returned", !.result = TRUE,
                                         !.itemState = "SUCCESS",
                                         !.extracted = Append(@, rc.idx)]
              /\ UNCHANGED stats
         [] o \in HttpErrors /\ meta_retryable(o) ->
              /\ UNCHANGED stats
              /\ IF cleaner_loop_guard(rc.retry_count + 1)
                   THEN rc' = [called(o) EXCEPT
                                  !.retry_count = @ + 1,
                                  !.backoff = backoff_base(rc.retry_count + 1),
                                  !.backoff_time =
                                     exponential_backoff(rc.retry_count + 1, r)]
                   ELSE rc' = [called(o) EXCEPT
                                  !.retry_count = @ + 1,
                                  !.backoff = backoff_base(rc.retry_count + 1),
                                  !.backoff_time =
                                     exponential_backoff(rc.retry_count + 1, r),
                                  !.pc = "returned",
                                  !.itemState = IF o = "s429"
                                                  THEN "RATE_LIMITED_EXHAUSTED"
                                                  ELSE "TRANSIENT_EXHAUSTED"]
         [] o \in HttpErrors /\ ~meta_retryable(o) ->
              /\ stats' = [stats EXCEPT !.errors = @ + 1]
              /\ rc' = [called(o) EXCEPT !.retry_count = @ + 1,
                                         !.pc = "returned",
                                         !.itemState = "NON_RETRYABLE"]
         [] OTHER ->
              /\ stats' = [stats EXCEPT !.errors = @ + 1]
              /\ rc' = [called(o) EXCEPT !.pc = "returned",
                                         !.itemState = "NON_RETRYABLE"]

\* One iteration of the loop of trash_single_message_with_retry.
AttemptTrash(o, r) ==
    /\ rc.caller = "trash" /\ rc.pc = "pending"
    /\ ~(o \in HttpErrors /\ trash_retryable(o)) => r = 50
    /\ UNCHANGED <<thrVars, analyzer, pg, bt, ia>>
    /\ CASE o = "ok" ->
              /\ stats' = [stats EXCEPT !.trashed = @ + 1]
              /\ rc' = [called(o) EXCEPT !.pc = "returned", !.result = TRUE,
                                         !.itemState = "SUCCESS"]
         [] o \in HttpErrors /\ trash_retryable(o) ->
              /\ UNCHANGED stats
              /\ IF cleaner_loop_guard(rc.retry_count + 1)
                   THEN rc' = [called(o) EXCEPT
                                  !.retry_count = @ + 1,
                                  !.backoff = backoff_base(rc.retry_count + 1),
                                  !.backoff_time =
                                     exponential_backoff(rc.retry_count + 1, r)]
                   ELSE rc' = [called(o) EXCEPT
                                  !.retry_count = @ + 1,
                                  !.backoff = backoff_base(rc.retry_count + 1),
                                  !.backoff_time =
                                     exponential_backoff(rc.retry_count + 1, r),
                                  !.pc = "returned",
                                  !.itemState = IF o = "s429"
                                                  THEN "RATE_LIMITED_EXHAUSTED"
                                                  ELSE "TRANSIENT_EXHAUSTED"]
         [] o \in HttpErrors /\ ~trash_retryable(o) ->
              /\ stats' = [stats EXCEPT !.errors = @ + 1]
              /\ rc' = [called(o) EXCEPT !.retry_count = @ + 1,
                                         !.pc = "returned",
                                         !.itemState = "NON_RETRYABLE"]
         [] OTHER ->
              /\ stats' = [stats EXCEPT !.errors = @ + 1]
              /\ rc' = [called(o) EXCEPT !.pc = "returned",
                                         !.itemState = "NON_RETRYABLE"]

ProcNext ==
    \/ StartItem
    \/ FinishRun
    \/ \E o \in Outcomes : AttemptStats(o)
    \/ \E o \in Outcomes, r \in JitterDraws : AttemptMeta(o, r)
    \/ \E o \in Outcomes, r \in JitterDraws : AttemptTrash(o, r)

SpecRetry == ProcInit /\ [][ProcNext]_vars

\* The same run in a process that keeps running: the program is one thread
\* whose remote calls and sleeps return, so a step that can be taken is taken.
SpecRetryFair == SpecRetry /\ WF_vars(ProcNext)

(***************************************************************************)
(* The paginators: the listing loop of GmailAnalyzer.count_emails ("stats",*)
(* with the optional cap max_emails) and GmailCleanerPro.                  *)
(* _fetch_all_message_ids ("cleaner", no cap).                             *)
(* The backend holds pg.pages, the size of each page of the listing; the   *)
(* items are numbered 1, 2, ... in listing order and every page but the    *)
(* last comes with a nextPageToken.  A page token is the number of the     *)
(* page it asks for; 0 is None.  pg.max_emails is <<>> for None and <<c>>  *)
(* for the integer c.  Each list call answers "ok", raises an HttpError    *)
(* ("http") or raises another exception ("exc").                           *)
(*   pg.pc        "listing" in the loop; "processing" when the loop is     *)
(*                left and the items found go on to the processing loop;   *)
(*                "empty" when the caller returns because nothing was      *)
(*                found; "crashed" when an exception left the function     *)
(*   pg.requests  list calls made                                          *)
(*   pg.failedAt  the number of the list call that raised, 0 if none       *)
(*   pg.sent      the pageToken the latest request carried                 *)
(*   pg.returned  the nextPageToken of the latest response (0: none, or    *)
(*                the call raised); pg.prevReturned that of the one before *)
(*   pg.lastEmpty the latest response had no messages                      *)
(*   pg.slept     the delay slept after the latest response, before the    *)
(*                loop goes round                                          *)
(***************************************************************************)
ListOutcomes == {"ok", "http", "exc"}
Paginators == {"stats", "cleaner"}

RECURSIVE SumTo(_, _)
\* the number of items on pages 1..k of the sequence of page sizes
SumTo(sizes, k) == IF k <= 0 THEN 0 ELSE sizes[k] + SumTo(sizes, k - 1)

\* resp.get('messages', []) of the page numbered k
page_messages(sizes, k) == Range(SumTo(sizes, k - 1) + 1, SumTo(sizes, k))

\* resp.get('nextPageToken') of the page numbered k
next_page_token(sizes, k) == IF k < Len(sizes) THEN k + 1 ELSE 0

\* the cap test written with `>` (a mutation of cap_reached)
cap_reached_off_by_one(max_emails, all) ==
    max_emails # <<>> /\ max_emails[1] # 0 /\ Len(all) > max_emails[1]

\* `max_emails and len(all_messages) >= max_emails`
cap_reached(max_emails, all) ==
    max_emails # <<>> /\ max_emails[1] # 0 /\ Len(all) >= max_emails[1]

\* an `except` clause that also catches exceptions that are not HttpError
\* (a mutation of caught_by_listing)
caught_any_exception(o) == o \in {"http", "exc"}

\* `except HttpError as e:` of both listing loops
caught_by_listing(o) == o = "http"

\* after the loop: `if not all_messages: return`, else on to the processing
after_listing(all) == IF all = <<>> THEN "empty" ELSE "processing"

PageInit ==
    /\ CONFIG = main_config(0, 0, FALSE, FALSE)
    /\ throttler = AdaptiveThrottler(CONFIG)
    /\ th = [op |-> "init", prev |-> throttler,
             streakBase |-> throttler.current_delay, streakLen |-> 0,
             failBase |-> throttler.current_delay, slept |-> 0]
    /\ ProcIdle
    /\ bt = NoBatch
    /\ ia = NoInteractive
    /\ \E who \in Paginators, np \in 1..MaxPages :
         \E sizes \in [1..np -> 0..MaxPageSize],
            cap \in {<<>>} \cup {<<c>> : c \in 0..MaxCap} :
            /\ who = "cleaner" => cap = <<>>
            /\ pg = [NoPaginator EXCEPT !.who = who, !.pages = sizes,
                                        !.max_emails = cap, !.pc = "listing"]

\* One iteration of the listing loop of count_emails, through to what follows
\* the loop when the iteration leaves it.
ListStats(o) ==
    /\ pg.who = "stats" /\ pg.pc = "listing"
    /\ UNCHANGED <<thrVars, procVars, bt, ia>>
    /\ LET k == IF pg.page_token = 0 THEN 1 ELSE pg.page_token
           msgs == page_messages(pg.pages, k)
           all == pg.all_messages \o msgs
           req == [pg EXCEPT !.requests = @ + 1,
                             !.sent = pg.page_token,
                             !.prevReturned = pg.returned,
                             !.returned = IF o = "ok"
                                            THEN next_page_token(pg.pages, k)
                                            ELSE 0,
                             !.lastEmpty = (o = "ok" /\ msgs = <<>>),
                             !.slept = 0]
       IN  CASE o = "ok" ->
                  IF msgs = <<>>
                    THEN pg' = [req EXCEPT !.pc = after_listing(pg.all_messages)]
                    ELSE IF cap_reached(pg.max_emails, all)
                      THEN pg' = [req EXCEPT
                                    !.all_messages = SubSeq(all, 1, pg.max_emails[1]),
                                    !.pc = after_listing(SubSeq(all, 1, pg.max_emails[1]))]
                      ELSE IF next_page_token(pg.pages, k) = 0
                        THEN pg' = [req EXCEPT !.all_messages = all,
                                               !.page_token = 0,
                                               !.pc = after_listing(all)]
                        ELSE pg' = [req EXCEPT !.all_messages = all,
                                               !.page_token = next_page_token(pg.pages, k)]
             [] o # "ok" /\ caught_by_listing(o) ->
                  pg' = [req EXCEPT !.failedAt = req.requests, !.failure = o,
                                    !.pc = after_listing(pg.all_messages)]
             [] OTHER ->
                  pg' = [req EXCEPT !.failedAt = req.requests, !.failure = o,
                                    !.pc = "crashed"]

\* One iteration of the loop of _fetch_all_message_ids, through to what
\* find_emails_by_criteria does with the list returned.
ListCleaner(o) ==
    /\ pg.who = "cleaner" /\ pg.pc = "listing"
    /\ UNCHANGED <<thrVars, procVars, bt, ia>>
    /\ LET k == IF pg.page_token = 0 THEN 1 ELSE pg.page_token
           msgs == page_messages(pg.pages, k)
           all == pg.all_messages \o msgs
           req == [pg EXCEPT !.requests = @ + 1,
                             !.sent = pg.page_token,
                             !.prevReturned = pg.returned,
                             !.returned = IF o = "ok"
                                            THEN next_page_token(pg.pages, k)
                                            ELSE 0,
                             !.lastEmpty = (o = "ok" /\ msgs = <<>>),
                             !.slept = 0]
       IN  CASE o = "ok" ->
                  IF msgs = <<>>
                    THEN pg' = [req EXCEPT !.pc = after_listing(pg.all_messages)]
                    ELSE IF next_page_token(pg.pages, k) = 0
                      THEN pg' = [req EXCEPT !.all_messages = all,
                                             !.page_token = 0,
                                             !.pc = after_listing(all)]
                      ELSE pg' = [req EXCEPT !.all_messages = all,
                                             !.page_token = next_page_token(pg.pages, k),
                                             !.slept = SleepAfterList]
             [] o # "ok" /\ caught_by_listing(o) ->
                  pg' = [req EXCEPT !.failedAt = req.requests, !.failure = o,
                                    !.pc = after_listing(pg.all_messages)]
             [] OTHER ->
                  pg' = [req EXCEPT !.failedAt = req.requests, !.failure = o,
                                    !.pc = "crashed"]

PageNext ==
    \/ \E o \in ListOutcomes : ListStats(o)
    \/ \E o \in ListOutcomes : ListCleaner(o)

SpecPaginate == PageInit /\ [][PageNext]_vars

(***************************************************************************)
(* GmailCleanerPro.trash_emails_batch over the messages 1..bt.n with       *)
(* batch_delete_size = bt.batch_size (DEFAULT_CONFIG has 1000; the         *)
(* configuration file may set any size).  batch.execute() either returns   *)
(* ("ok"), after calling batch_callback once per sub-request, some of them *)
(* with an exception, or raises ("raise").                                 *)
(*   bt.pc       "start" at the call, "loop" in the for loop, "done" when  *)
(*               the function has returned                                 *)
(*   bt.i        the loop variable: the index the next chunk starts at     *)
(*   bt.batches  the chunks submitted so far, in order                     *)
(*   bt.raised   batch requests that raised                                *)
(*   bt.okItems      the sizes, summed, of the batches whose request       *)
(*                   returned without raising                              *)
(*   bt.raisedItems  the sizes, summed, of the batches whose request raised*)
(*   bt.subErrors    sub-requests batch_callback was given an exception for*)
(*   bt.last         the outcome of the latest batch request               *)
(*   bt.slept        the pacing delay slept in the latest iteration        *)
(*   bt.before   self.stats at the call                                    *)
(***************************************************************************)
BatchOutcomes == {"ok", "raise"}

\* messages_info[i:i + batch_size]
chunk_at(n, i, batch_size) == Range(i + 1, Min(i + batch_size, n))

\* range(0, total - 1, batch_size): the loop stops one index early
\* (a mutation of in_range)
in_range_short(i, total) == i < total - 1

\* `for i in range(0, total, batch_size)`: i is still in the range
in_range(i, total) == i < total

\* `trashed_count_in_batch += len(chunk)` whether the request raised or not
\* (a mutation of credited)
credited_always(o, chunk) == Len(chunk)

\* what one batch request adds to trashed_count_in_batch: the line after
\* batch.execute() is reached only when execute() did not raise
credited(o, chunk) == IF o = "ok" THEN Len(chunk) ELSE 0

\* the pacing sleep of one iteration of the loop:
\* `time.sleep(self.config['delay_between_requests'])` stands in the try
\* block, after batch.execute()
pacing_after(o) == IF o = "ok" THEN DelayBetweenRequests ELSE 0

BatchInit ==
    /\ CONFIG = main_config(0, 0, FALSE, FALSE)
    /\ throttler = AdaptiveThrottler(CONFIG)
    /\ th = [op |-> "init", prev |-> throttler,
             streakBase |-> throttler.current_delay, streakLen |-> 0,
             failBase |-> throttler.current_delay, slept |-> 0]
    /\ ProcIdle
    /\ pg = NoPaginator
    /\ ia = NoInteractive
    /\ \E n \in 0..MaxBatchItems, b \in 1..MaxBatchSize :
          bt = [NoBatch EXCEPT !.n = n, !.batch_size = b, !.pc = "start"]

\* The call, up to the for loop: `if not messages_info: return`.
BatchCall ==
    /\ bt.pc = "start"
    /\ bt' = [bt EXCEPT !.pc = IF bt.n = 0 \/ ~in_range(0, bt.n)
                                 THEN "done" ELSE "loop",
                        !.before = stats]
    /\ UNCHANGED <<thrVars, procVars, pg, ia>>

\* One iteration of the for loop: the chunk is added to a new batch request
\* and executed; after the last iteration, the lines that follow the loop.
SubmitBatch(o, subErrs) ==
    /\ bt.pc = "loop"
    /\ LET chunk == chunk_at(bt.n, bt.i, bt.batch_size)
           count == bt.trashed_count_in_batch + credited(o, chunk)
           errs == IF o = "ok" THEN stats.errors + subErrs ELSE stats.errors
           last == ~in_range(bt.i + bt.batch_size, bt.n)
       IN  /\ subErrs <= Len(chunk)
           /\ o = "raise" => subErrs = 0
           /\ bt' = [bt EXCEPT !.i = @ + bt.batch_size,
                               !.batches = Append(@, chunk),
                               !.trashed_count_in_batch = count,
                               !.raised = IF o = "raise" THEN @ + 1 ELSE @,
                               !.okItems = IF o = "ok" THEN @ + Len(chunk) ELSE @,
                               !.raisedItems = IF o = "raise" THEN @ + Len(chunk)
                                                             ELSE @,
                               !.subErrors = @ + subErrs,
                               !.last = o,
                               !.slept = pacing_after(o),
                               !.pc = IF last THEN "done" ELSE "loop"]
           /\ stats' = [stats EXCEPT !.errors = errs,
                                     !.trashed = IF last THEN @ + count ELSE @]
    /\ UNCHANGED <<thrVars, analyzer, rc, pg, ia>>

BatchNext ==
    \/ BatchCall
    \/ \E o \in BatchOutcomes, e \in 0..MaxSubErrors : SubmitBatch(o, e)

SpecBatch == BatchInit /\ [][BatchNext]_vars

\* The processing core: a run of one of the retrying callers' drivers or
\* of trash_emails_batch.
CoreInit == ProcInit \/ BatchInit

CoreNext == ProcNext \/ BatchNext

SpecCore == CoreInit /\ [][CoreNext]_vars

(***************************************************************************)
(* The chunk loop of GmailAnalyzer.count_emails, after a listing that      *)
(* found the messages pg.all_messages: each chunk of CONFIG.chunk_size     *)
(* messages goes through _process_chunk, which is the "stats" driver of    *)
(* the retrying caller run over the chunk.  Each get answers with one      *)
(* outcome of each kind _process_single_message tells apart.               *)
(*   pg.pc    "processing" at the head of the for loop, "chunk" while      *)
(*            _process_chunk runs, "finished" after the loop               *)
(*   pg.i     the loop variable: the index the next chunk starts at        *)
(*   pg.processed_chunks  the local of that name                           *)
(*   pg.chunks     the chunks taken so far, in order                       *)
(*   pg.snapshots  the progress lines logged: chunk number, total_processed*)
(*                 and current delay shown                                 *)
(***************************************************************************)
ChunkOutcomes == {"ok", "s429", "s404"}

\* a slice that starts one message early (a mutation of chunk_of)
chunk_of_overlapping(all, i, chunk_size) ==
    SubSeq(all, Max(1, i), Min(i + chunk_size, Len(all)))

\* all_messages[i:i + CONFIG['chunk_size']]
chunk_of(all, i, chunk_size) ==
    SubSeq(all, i + 1, Min(i + chunk_size, Len(all)))

\* `processed_chunks % 5 == 0`
snapshot_due(processed_chunks) == processed_chunks % SnapshotEvery = 0

\* count_emails after a one-page listing of n messages, run with
\* --chunk-size cs.
ChunkInit ==
    /\ \E cs \in 1..MaxChunkSize :
          CONFIG = [main_config(0, 0, FALSE, FALSE) EXCEPT !.chunk_size = cs]
    /\ throttler = AdaptiveThrottler(CONFIG)
    /\ th = [op |-> "init", prev |-> throttler,
             streakBase |-> throttler.current_delay, streakLen |-> 0,
             failBase |-> throttler.current_delay, slept |-> 0]
    /\ ProcIdle
    /\ bt = NoBatch
    /\ ia = NoInteractive
    /\ \E n \in 0..MaxChunkItems :
          pg = [NoPaginator EXCEPT !.who = "stats", !.pages = <<n>>,
                                   !.requests = 1,
                                   !.all_messages = Range(1, n),
                                   !.pc = after_listing(Range(1, n))]

\* The head of the for loop: the next chunk is sliced and handed to
\* _process_chunk, or the loop is over.
NextChunk ==
    /\ pg.who = "stats" /\ pg.pc = "processing"
    /\ IF in_range(pg.i, Len(pg.all_messages))
         THEN LET chunk == chunk_of(pg.all_messages, pg.i, CONFIG.chunk_size)
              IN  /\ pg' = [pg EXCEPT !.pc = "chunk", !.chunks = Append(@, chunk)]
                  /\ rc' = [NoCaller EXCEPT !.caller = "stats", !.n = Len(chunk),
                                            !.items = chunk, !.fed = rc.fed]
         ELSE /\ pg' = [pg EXCEPT !.pc = "finished"]
              /\ UNCHANGED rc
    /\ UNCHANGED <<thrVars, analyzer, stats, bt, ia>>

\* A progress line that counts itself as a processed message (a mutation of
\* EndChunk).
EndChunkCounting ==
    /\ pg.pc = "chunk" /\ rc.pc = "finished"
    /\ pg' = [pg EXCEPT
                 !.processed_chunks = @ + 1,
                 !.i = @ + CONFIG.chunk_size,
                 !.pc = "processing",
                 !.snapshots =
                    IF snapshot_due(pg.processed_chunks + 1)
                      THEN Append(@, [chunk |-> pg.processed_chunks + 1,
                                      processed |-> analyzer.total_processed,
                                      delay |-> throttler.current_delay])
                      ELSE @]
    /\ analyzer' = IF snapshot_due(pg.processed_chunks + 1)
                     THEN [analyzer EXCEPT !.total_processed = @ + 1]
                     ELSE analyzer
    /\ UNCHANGED <<thrVars, stats, rc, bt, ia>>

\* The rest of the loop body, after _process_chunk has returned:
\* processed_chunks += 1 and, every 5 chunks, the progress line.
EndChunk ==
    /\ pg.pc = "chunk" /\ rc.pc = "finished"
    /\ pg' = [pg EXCEPT
                 !.processed_chunks = @ + 1,
                 !.i = @ + CONFIG.chunk_size,
                 !.pc = "processing",
                 !.snapshots =
                    IF snapshot_due(pg.processed_chunks + 1)
                      THEN Append(@, [chunk |-> pg.processed_chunks + 1,
                                      processed |-> analyzer.total_processed,
                                      delay |-> throttler.current_delay])
                      ELSE @]
    /\ UNCHANGED <<thrVars, analyzer, stats, rc, bt, ia>>

ChunkNext ==
    \/ NextChunk
    \/ StartItem
    \/ \E o \in ChunkOutcomes : AttemptStats(o)
    \/ FinishRun
    \/ EndChunk

SpecChunks == ChunkInit /\ [][ChunkNext]_vars

(***************************************************************************)
(* GmailCleanerPro.find_emails_by_criteria, called once per search of the  *)
(* process.  The ids _fetch_all_message_ids lists are an input (search s   *)
(* lists the ids 10 * s + 1, 10 * s + 2, ...), and so is what              *)
(* get_message_metadata_with_retry returns for each: <<>> for None (with   *)
(* or without an error counted), <<d>> for a tuple whose date is d, where  *)
(* DatetimeMin is the value parse_email_date gives a date it cannot parse. *)
(*   pg.pc              "search" before the first call, "loading" in the   *)
(*                      metadata loop, "returned" after the return         *)
(*   pg.search          the number of the search                           *)
(*   pg.ids             all_message_ids                                    *)
(*   pg.fetched         what the fetch returned for the ids handled so far *)
(*   pg.messages_cache  self.messages_cache: records of dt and id          *)
(*   pg.result          the list returned                                  *)
(*   pg.earlier         the ids the earlier searches listed                *)
(***************************************************************************)
DatetimeMin == 0
IdsPerSearch == 10

FetchResults == {<<>>} \cup {<<d>> : d \in DatetimeMin..MaxDate}

\* the ids search s lists when it finds n messages
ids_of(s, n) == [j \in 1..n |-> IdsPerSearch * s + j]

\* the set of the elements of a sequence
Elems(seq) == {seq[j] : j \in DOMAIN seq}

\* `[... for dt, mid, subj in self.messages_cache if dt != datetime.min...]`
valid_messages(cache) == SelectSeq(cache, LAMBDA m : m.dt # DatetimeMin)

\* one step of list.sort(key=lambda x: x[0]): m goes after the entries that
\* are not later than it (the sort is stable)
insert_by_date(sorted, m) ==
    LET k == Cardinality({j \in DOMAIN sorted : sorted[j].dt <= m.dt})
    IN  SubSeq(sorted, 1, k) \o <<m>> \o SubSeq(sorted, k + 1, Len(sorted))

\* `valid_messages.sort(key=lambda x: x[0])`
RECURSIVE sort_by_date(_)
sort_by_date(seq) ==
    IF seq = <<>>
      THEN <<>>
      ELSE insert_by_date(sort_by_date(SubSeq(seq, 1, Len(seq) - 1)),
                          seq[Len(seq)])

FindInit ==
    /\ CONFIG = main_config(0, 0, FALSE, FALSE)
    /\ throttler = AdaptiveThrottler(CONFIG)
    /\ th = [op |-> "init", prev |-> throttler,
             streakBase |-> throttler.current_delay, streakLen |-> 0,
             failBase |-> throttler.current_delay, slept |-> 0]
    /\ ProcIdle
    /\ bt = NoBatch
    /\ ia = NoInteractive
    /\ pg = [NoPaginator EXCEPT !.who = "find", !.pc = "search"]

\* The call: the cache is cleared, the ids are listed, and the function
\* returns [] when there are none.
FindStart(n) ==
    /\ pg.who = "find" /\ pg.pc \in {"search", "returned"}
    /\ pg.search < MaxSearches
    /\ pg' = [pg EXCEPT !.search = @ + 1,
                        !.earlier = @ \cup Elems(pg.ids),
                        !.ids = ids_of(pg.search + 1, n),
                        !.fetched = <<>>,
                        !.messages_cache = <<>>,
                        !.result = <<>>,
                        !.pc = IF n = 0 THEN "returned" ELSE "loading"]
    /\ UNCHANGED <<thrVars, procVars, bt, ia>>

\* One iteration of the metadata loop: `if result: self.messages_cache
\* .append(result)`.
FindFetch(res, errs) ==
    /\ pg.who = "find" /\ pg.pc = "loading"
    /\ Len(pg.fetched) < Len(pg.ids)
    /\ res # <<>> => errs = 0
    /\ LET msg_id == pg.ids[Len(pg.fetched) + 1]
       IN  pg' = [pg EXCEPT !.fetched = Append(@, res),
                            !.messages_cache =
                               IF res # <<>>
                                 THEN Append(@, [dt |-> res[1], id |-> msg_id])
                                 ELSE @]
    /\ stats' = [stats EXCEPT !.errors = @ + errs]
    /\ UNCHANGED <<thrVars, analyzer, rc, bt, ia>>

\* After the loop: filter, sort, store, count and return.
FindFinish ==
    /\ pg.who = "find" /\ pg.pc = "loading"
    /\ Len(pg.fetched) = Len(pg.ids)
    /\ LET sorted == sort_by_date(valid_messages(pg.messages_cache))
       IN  /\ pg' = [pg EXCEPT !.messages_cache = sorted,
                                !.result = sorted,
                                !.pc = "returned"]
           /\ stats' = [stats EXCEPT !.found = Len(sorted)]
    /\ UNCHANGED <<thrVars, analyzer, rc, bt, ia>>

FindNext ==
    \/ \E n \in 0..MaxFindItems : FindStart(n)
    \/ \E res \in FetchResults, errs \in 0..1 : FindFetch(res, errs)
    \/ FindFinish

SpecFind == FindInit /\ [][FindNext]_vars

(***************************************************************************)
(* main() of gmail-stats.py around count_emails: the try block that calls  *)
(* count_emails, saves the CSV and prints the final statistics, and its    *)
(* `except Exception`.  The user may press Ctrl-C while the chunks are     *)
(* processed: Python raises KeyboardInterrupt, which is a BaseException    *)
(* and no Exception, so neither the handlers of _process_single_message    *)
(* nor the one of main() catch it.                                         *)
(*   pg.main    "running", "returned 0" after the final statistics,        *)
(*              "returned 1" from the except clause, "interrupted" when    *)
(*              KeyboardInterrupt left main()                              *)
(*   pg.report  <<>> or the final statistics printed: total_emails and     *)
(*              total_errors of get_statistics()                           *)
(***************************************************************************)
\* get_statistics(), the counters of it
get_statistics ==
    [total_emails |-> analyzer.total_processed,
     total_errors |-> analyzer.total_errors]

\* count_emails has returned: save_csv (which writes a file and may raise)
\* and the final statistics.
FinalReport(saved) ==
    /\ pg.who = "stats" /\ pg.main = "running"
    /\ pg.pc \in {"finished", "empty"}
    /\ pg' = IF saved
               THEN [pg EXCEPT !.main = "returned 0",
                               !.report = <<get_statistics>>]
               ELSE [pg EXCEPT !.main = "returned 1"]
    /\ UNCHANGED <<thrVars, procVars, bt, ia>>

\* Ctrl-C during processing: KeyboardInterrupt propagates out of main().
KeyboardInterrupt ==
    /\ pg.who = "stats" /\ pg.main = "running"
    /\ pg.pc \in {"processing", "chunk"}
    /\ pg' = [pg EXCEPT !.main = "interrupted"]
    /\ UNCHANGED <<thrVars, procVars, bt, ia>>

MainNext ==
    \/ pg.main = "running" /\ ChunkNext
    \/ \E saved \in BOOLEAN : FinalReport(saved)
    \/ KeyboardInterrupt

SpecMain == ChunkInit /\ [][MainNext]_vars

(***************************************************************************)
(* GmailCleanerPro.trash_emails_interactive over the messages 1..ia.total  *)
(* (oldest first), as main()'s interactive loop calls it once per round.   *)
(* The user's answers are inputs: the action typed at the prompt ("y",     *)
(* "c", "b"; "n" stands for every other answer) and, for "c", the number   *)
(* of latest messages to keep (<<>> for text int() rejects, <<k>> for the  *)
(* integer k).  The deletion itself runs as trash_emails_batch (bt) or as  *)
(* the one-by-one loop over trash_single_message_with_retry (rc).          *)
(* Each deletion call answers with one outcome of each kind the one-by-one *)
(* loop tells apart: success, a retryable status, a status that is not;    *)
(* the backoff's random draw is 0.5 (no jitter).                           *)
(*   ia.pc             "prompt" at the call, "deleting" while the          *)
(*                     deletion runs, "done" when the function returned    *)
(*   ia.to_delete      len(messages_to_delete): the first to_delete items  *)
(*   ia.skipped_count  the local skipped_count                             *)
(*   ia.path           which deletion was chosen: "batch" or "single"      *)
(*   ia.round          the round of the interactive loop                   *)
(*   ia.before         self.stats at the call                              *)
(***************************************************************************)
ActionInputs == {"y", "n", "c", "b"}
InteractiveOutcomes == {"ok", "s429", "s404"}
KeepInputs == {<<>>} \cup {<<k>> : k \in -1..(MaxInteractiveItems + 1)}

\* `keep_count = max(0, min(int(keep_str), total))`, 0 on a ValueError
keep_count_of(keep_str, total) ==
    IF keep_str = <<>> THEN 0 ELSE Max(0, Min(keep_str[1], total))

\* len(messages_info[:-keep_count] if keep_count > 0 else messages_info)
to_delete_count(keep_count, total) ==
    IF keep_count > 0 THEN total - keep_count ELSE total

\* the dispatch written with `>` (a mutation of use_batch_path)
use_batch_path_above(use_batch_delete, n) ==
    use_batch_delete /\ n > MinBatchCount

\* `self.config['use_batch_delete'] and len(messages_to_delete) >= 10`
use_batch_path(use_batch_delete, n) ==
    use_batch_delete /\ n >= MinBatchCount

\* The state at the call of round 1, for lists of up to maxTotal messages.
InteractStart(maxTotal) ==
    /\ CONFIG = main_config(0, 0, FALSE, FALSE)
    /\ throttler = AdaptiveThrottler(CONFIG)
    /\ th = [op |-> "init", prev |-> throttler,
             streakBase |-> throttler.current_delay, streakLen |-> 0,
             failBase |-> throttler.current_delay, slept |-> 0]
    /\ ProcIdle
    /\ pg = NoPaginator
    /\ bt = [NoBatch EXCEPT !.batch_size = MaxBatchSize]
    /\ \E total \in 0..maxTotal, dry \in BOOLEAN, ub \in BOOLEAN :
          ia = [NoInteractive EXCEPT !.total = total, !.dry_run = dry,
                                     !.use_batch_delete = ub, !.pc = "prompt",
                                     !.round = 1]

InteractInit == InteractStart(MaxInteractiveItems)

\* trash_emails_interactive without the dry-run check (a mutation of
\* Interact).
InteractIgnoringDryRun(act, keep_str, backedUp) ==
    /\ ia.pc = "prompt"
    /\ act # "c" => keep_str = <<>>
    /\ backedUp \in IF act = "b" /\ ia.total > 0 /\ ~ia.dry_run
                      THEN {0} \cup (Max(0, ia.total - MaxBackupFailures)..ia.total)
                      ELSE {0}
    /\ LET total == ia.total
           keep_count == IF act = "c" THEN keep_count_of(keep_str, total) ELSE 0
           n == IF act = "c" THEN to_delete_count(keep_count, total) ELSE total
       IN  IF total = 0
             THEN /\ ia' = [ia EXCEPT !.pc = "done", !.before = stats]
                  /\ UNCHANGED <<stats, rc, bt>>
             ELSE IF act = "n" \/ (act = "c" /\ n = 0)
               THEN /\ stats' = [stats EXCEPT !.skipped = total]
                    /\ ia' = [ia EXCEPT !.pc = "done", !.before = stats,
                                        !.action = IF ia.dry_run THEN "none" ELSE act,
                                        !.keep_count = IF ia.dry_run THEN 0
                                                                    ELSE keep_count]
                    /\ UNCHANGED <<rc, bt>>
               ELSE /\ stats' = [stats EXCEPT !.backed_up = @ + backedUp]
                    /\ ia' = [ia EXCEPT
                                 !.pc = "deleting", !.before = stats,
                                 !.action = act, !.keep_count = keep_count,
                                 !.to_delete = n, !.skipped_count = keep_count,
                                 !.path = IF use_batch_path(ia.use_batch_delete, n)
                                            THEN "batch" ELSE "single"]
                    /\ IF use_batch_path(ia.use_batch_delete, n)
                         THEN /\ bt' = [bt EXCEPT !.n = n, !.pc = "start"]
                              /\ UNCHANGED rc
                         ELSE /\ rc' = [NoCaller EXCEPT !.caller = "trash", !.n = n,
                                                    !.items = Range(1, n)]
                              /\ UNCHANGED bt
    /\ UNCHANGED <<thrVars, analyzer, pg>>

\* trash_emails_interactive from its call to the start of the deletion (or
\* to its return, when nothing is to be deleted).  With action "b",
\* export_emails_before_delete has counted backedUp messages as backed up.
Interact(act, keep_str, backedUp) ==
    /\ ia.pc = "prompt"
    /\ act # "c" => keep_str = <<>>
    /\ backedUp \in IF act = "b" /\ ia.total > 0 /\ ~ia.dry_run
                      THEN {0} \cup (Max(0, ia.total - MaxBackupFailures)..ia.total)
                      ELSE {0}
    /\ LET total == ia.total
           keep_count == IF act = "c" THEN keep_count_of(keep_str, total) ELSE 0
           n == IF act = "c" THEN to_delete_count(keep_count, total) ELSE total
       IN  IF total = 0
             THEN /\ ia' = [ia EXCEPT !.pc = "done", !.before = stats]
                  /\ UNCHANGED <<stats, rc, bt>>
             ELSE IF ia.dry_run \/ act = "n" \/ (act = "c" /\ n = 0)
               THEN /\ stats' = [stats EXCEPT !.skipped = total]
                    /\ ia' = [ia EXCEPT !.pc = "done", !.before = stats,
                                        !.action = IF ia.dry_run THEN "none" ELSE act,
                                        !.keep_count = IF ia.dry_run THEN 0
                                                                    ELSE keep_count]
                    /\ UNCHANGED <<rc, bt>>
               ELSE /\ stats' = [stats EXCEPT !.backed_up = @ + backedUp]
                    /\ ia' = [ia EXCEPT
                                 !.pc = "deleting", !.before = stats,
                                 !.action = act, !.keep_count = keep_count,
                                 !.to_delete = n, !.skipped_count = keep_count,
                                 !.path = IF use_batch_path(ia.use_batch_delete, n)
                                            THEN "batch" ELSE "single"]
                    /\ IF use_batch_path(ia.use_batch_delete, n)
                         THEN /\ bt' = [bt EXCEPT !.n = n, !.pc = "start"]
                              /\ UNCHANGED rc
                         ELSE /\ rc' = [NoCaller EXCEPT !.caller = "trash", !.n = n,
                                                    !.items = Range(1, n)]
                              /\ UNCHANGED bt
    /\ UNCHANGED <<thrVars, analyzer, pg>>

\* After the deletion: `self.stats['skipped'] += skipped_count`, and return.
FinishInteractive ==
    /\ ia.pc = "deleting"
    /\ \/ ia.path = "batch" /\ bt.pc = "done"
       \/ ia.path = "single" /\ rc.pc = "finished"
    /\ stats' = [stats EXCEPT !.skipped = @ + ia.skipped_count]
    /\ ia' = [ia EXCEPT !.pc = "done"]
    /\ UNCHANGED <<thrVars, analyzer, rc, pg, bt>>

\* main(): the interactive loop goes round again and calls
\* trash_emails_interactive on the next list found.
NewRound(total) ==
    /\ ia.pc = "done"
    /\ ia.round < MaxRounds
    /\ ia' = [NoInteractive EXCEPT !.total = total, !.dry_run = ia.dry_run,
                                   !.use_batch_delete = ia.use_batch_delete,
                                   !.pc = "prompt", !.round = ia.round + 1]
    /\ rc' = NoCaller
    /\ bt' = [NoBatch EXCEPT !.batch_size = bt.batch_size]
    /\ UNCHANGED <<thrVars, analyzer, stats, pg>>

InteractiveNext ==
    \/ /\ ia.pc = "prompt"
       /\ \E act \in ActionInputs, k \in KeepInputs, u \in 0..MaxInteractiveItems :
             Interact(act, k, u)
    \/ BatchCall
    \/ \E o \in BatchOutcomes, e \in 0..MaxSubErrors : SubmitBatch(o, e)
    \/ StartItem
    \/ \E o \in InteractiveOutcomes : AttemptTrash(o, 50)
    \/ FinishRun
    \/ FinishInteractive

\* one call of trash_emails_interactive
SpecInteractive == InteractInit /\ [][InteractiveNext]_vars

RoundsInit == InteractStart(MaxRoundItems)

RoundsNext ==
    \/ /\ ia.pc = "prompt"
       /\ \E act \in ActionInputs, k \in KeepInputs, u \in 0..MaxRoundItems :
             Interact(act, k, u)
    \/ StartItem
    \/ \E o \in InteractiveOutcomes : AttemptTrash(o, 50)
    \/ FinishRun
    \/ FinishInteractive
    \/ \E total \in 1..MaxRoundItems : NewRound(total)

\* successive rounds of the interactive loop, on short lists
SpecRounds == RoundsInit /\ [][RoundsNext]_vars

(***************************************************************************)
(* Properties of the throttle (checked under SpecThrottle).                *)
(***************************************************************************)
\* C1: in every reachable state of the throttle, for every configuration
\* main() accepts, initialDelay <= currentDelay <= maxDelay.
C1_DelayWithinBounds ==
    /\ CONFIG.initial_delay <= throttler.current_delay
    /\ throttler.current_delay <= CONFIG.max_delay

\* The same bound restricted to the configurations with
\* initial_delay <= max_delay (where it does hold).
DelayWithinBoundsWhenOrdered ==
    CONFIG.initial_delay <= CONFIG.max_delay => C1_DelayWithinBounds

\* C2: when successThreshold consecutive on_success() calls have been made
\* from a success streak of 0, with no on_rate_limit() between them,
\* currentDelay = max(initialDelay, previousDelay * successReduction), with
\* previousDelay the delay before the streak, and the streak is back at 0;
\* from 0.05 s with threshold 5 and reduction 0.85 the delay is 0.05 s.
C2_ThresholdReduction ==
    (th.op = "success" /\ th.streakLen = CONFIG.success_threshold) =>
        /\ throttler.current_delay =
              Max(CONFIG.initial_delay, (th.streakBase * 85) \div 100)
        /\ throttler.consecutive_successes = 0
        /\ (CONFIG.initial_delay = 5 /\ CONFIG.success_threshold = 5
              /\ th.streakBase = 5) => throttler.current_delay = 5

\* C2 witness: a full streak that lowered the delay to a value still above
\* the floor.
C2_Witness ==
    /\ th.op = "success"
    /\ th.streakLen = CONFIG.success_threshold
    /\ throttler.current_delay < th.streakBase
    /\ throttler.current_delay > CONFIG.initial_delay

\* C3: one on_rate_limit() call sets currentDelay to
\* min(maxDelay, previousDelay * backoffFactor), resets the success streak and
\* adds one to the failure streak, whatever the success streak was; k
\* consecutive calls from a delay d <= maxDelay give min(maxDelay, d * 2^k),
\* so from 1.0 s with maxDelay 8.0 s the delays are 2.0, 4.0, 8.0.
C3_RateLimitBackoff ==
    th.op = "rate_limit" =>
        /\ throttler.current_delay =
              Min(CONFIG.max_delay, th.prev.current_delay * 2)
        /\ throttler.consecutive_successes = 0
        /\ throttler.consecutive_failures = th.prev.consecutive_failures + 1
        /\ th.failBase <= CONFIG.max_delay =>
              throttler.current_delay =
                 Min(CONFIG.max_delay,
                     th.failBase * Pow2(throttler.consecutive_failures))
        /\ (CONFIG.max_delay = 800 /\ th.failBase = 100) =>
              throttler.current_delay =
                 CASE throttler.consecutive_failures = 1 -> 200
                   [] throttler.consecutive_failures = 2 -> 400
                   [] OTHER -> 800

\* C3 witness: the third consecutive rate limit from 1.0 s under
\* maxDelay = 8.0 s, reaching the cap.
C3_Witness ==
    /\ th.op = "rate_limit"
    /\ CONFIG.initial_delay = 100 /\ CONFIG.max_delay = 800
    /\ th.failBase = 100
    /\ throttler.consecutive_failures = 3
    /\ th.prev.current_delay = 400
    /\ throttler.current_delay = 800

\* C23: on_success() adds one to the consecutive-success counter and sets
\* the consecutive-failure counter to 0; while the success counter is below
\* successThreshold after the increment, currentDelay is left unchanged.
C23_SuccessBetweenThresholds ==
    th.op = "success" =>
        /\ throttler.consecutive_failures = 0
        /\ th.prev.consecutive_successes + 1 < CONFIG.success_threshold =>
              /\ throttler.consecutive_successes =
                    th.prev.consecutive_successes + 1
              /\ throttler.current_delay = th.prev.current_delay

\* C23 witness: the first success after a rate limit, with the delay above
\* its floor: the failure streak is reset and the delay is kept.
C23_Witness ==
    /\ th.op = "success"
    /\ th.prev.consecutive_failures > 0
    /\ th.prev.current_delay > CONFIG.initial_delay
    /\ throttler.consecutive_successes = 1
    /\ throttler.consecutive_failures = 0
    /\ throttler.current_delay = th.prev.current_delay

\* C24: wait() pauses for currentDelay in normal mode and for
\* max(0.01 s, currentDelay * 0.5) in turbo mode and changes nothing of the
\* throttle state: currentDelay, consecutive_successes and
\* consecutive_failures are modified only by on_success() and
\* on_rate_limit().
C24_WaitOnlyPauses ==
    /\ [](th.op = "wait" =>
            /\ throttler = th.prev
            /\ th.slept = IF CONFIG.turbo_mode
                             THEN Max(1, throttler.current_delay \div 2)
                             ELSE throttler.current_delay)
    /\ [][throttler' # throttler => th'.op \in {"success", "rate_limit"}]_vars

\* C24 witness: a turbo-mode wait() at a delay of 0.08 s pauses 0.04 s.
C24_Witness ==
    /\ th.op = "wait"
    /\ CONFIG.turbo_mode
    /\ throttler.current_delay = 8
    /\ throttler.consecutive_failures = 2
    /\ th.slept = 4

\* C32: in every reachable throttle state with successThreshold >= 1, after
\* each completed call 0 <= consecutive_successes < successThreshold, and
\* consecutive_successes and consecutive_failures are never both non-zero.
C32_StreakCountersInRange ==
    CONFIG.success_threshold >= 1 =>
        /\ 0 <= throttler.consecutive_successes
        /\ throttler.consecutive_successes < CONFIG.success_threshold
        /\ ~ (throttler.consecutive_successes # 0
                /\ throttler.consecutive_failures # 0)

\* C32 witness: the on_success() call that completes a streak, after which
\* the success counter is back at 0.
C32_Witness ==
    /\ th.op = "success"
    /\ CONFIG.success_threshold >= 1
    /\ th.prev.consecutive_successes = CONFIG.success_threshold - 1
    /\ th.prev.consecutive_successes > 0
    /\ throttler.consecutive_successes = 0

\* C34: the throttle moves in one direction per event, in every reachable
\* state: on_success() never increases currentDelay and on_rate_limit()
\* never decreases it.
C34_OneDirectionPerEvent ==
    /\ th.op = "success" => throttler.current_delay <= th.prev.current_delay
    /\ th.op = "rate_limit" => throttler.current_delay >= th.prev.current_delay

\* The same in the configurations with initial_delay <= max_delay (where it
\* does hold).
OneDirectionPerEventWhenOrdered ==
    CONFIG.initial_delay <= CONFIG.max_delay => C34_OneDirectionPerEvent

\* C17: recovery on sustained success (checked under SpecThrottleFair):
\* from any reachable throttle state, if from then on no on_rate_limit()
\* call occurs and on_success() calls keep occurring, currentDelay
\* eventually equals initialDelay and stays there.
C17_RecoveryOnSustainedSuccess ==
    []<>(th.op = "rate_limit")
       \/ <>[](throttler.current_delay = CONFIG.initial_delay)

\* C17 witness: a success streak has brought a raised delay back down to
\* initialDelay.
C17_Witness ==
    /\ th.op = "success"
    /\ th.prev.current_delay > CONFIG.initial_delay
    /\ th.streakLen = CONFIG.success_threshold
    /\ throttler.current_delay = CONFIG.initial_delay

(***************************************************************************)
(* Properties of the retrying callers (checked under SpecRetry).           *)
(***************************************************************************)
\* maxRetries of the configuration the running caller reads
MaxRetriesOf(caller) ==
    IF caller = "stats" THEN StatsMaxRetries ELSE CleanerMaxRetries

\* C4: for every retrying caller and every sequence of backend outcomes,
\* the remote operation is invoked at most maxRetries + 1 times for one item.
C4_AtMostMaxRetriesPlusOneCalls ==
    rc.caller \in Callers => rc.calls <= MaxRetriesOf(rc.caller) + 1

\* C4 witness: an item of _process_single_message that used all
\* maxRetries + 1 invocations.
C4_Witness ==
    /\ rc.caller = "stats"
    /\ rc.pc = "returned"
    /\ rc.calls = StatsMaxRetries + 1

\* C5: an item whose every call answers with a rate-limit error gets
\* attempts 1..maxRetries+1 and its terminal failure is reported on attempt
\* maxRetries + 1, in each of the three retrying callers.
C5_RateLimitedFailsOnLastAttempt ==
    (rc.caller \in Callers /\ rc.pc = "returned" /\ rc.calls >= 1 /\ rc.all429) =>
        /\ rc.calls = MaxRetriesOf(rc.caller) + 1
        /\ ~rc.result

\* What does hold of an always-rate-limited item: gmail-stats fails it on
\* attempt maxRetries + 1, the cleaner's two callers on attempt maxRetries.
RateLimitedFailsOnCodeAttempt ==
    (rc.caller \in Callers /\ rc.pc = "returned" /\ rc.calls >= 1 /\ rc.all429) =>
        /\ rc.calls = IF rc.caller = "stats" THEN StatsMaxRetries + 1
                                              ELSE CleanerMaxRetries
        /\ ~rc.result

\* C6: every terminal outcome of _process_single_message and of
\* trash_single_message_with_retry changes exactly one run counter by exactly
\* one: the success counter on success, the error counter on a failure.
C6_ExactlyOneCounterPerOutcome ==
    (rc.caller \in {"stats", "trash"} /\ rc.pc = "returned") =>
        /\ (SuccessCount - rc.before.ok) + (ErrorCount - rc.before.err) = 1
        /\ rc.result => SuccessCount = rc.before.ok + 1
        /\ ~rc.result => ErrorCount = rc.before.err + 1

\* The same for _process_single_message alone (where it does hold).
StatsExactlyOneCounterPerOutcome ==
    rc.caller = "stats" => C6_ExactlyOneCounterPerOutcome

\* C7: when the first attempt for an item fails with a non-retryable error
\* (an HTTP status outside 429/403/500/503, or an exception that is not an
\* HttpError), no further attempt is made, the error counter rises by exactly
\* one, the success counter is unchanged and the caller returns failure.
C7_NonRetryableFailsAtOnce ==
    (rc.caller \in Callers /\ rc.calls >= 1 /\ rc.first \in {"s404", "exc"}) =>
        /\ rc.pc \in {"returned", "finished"}
        /\ rc.calls = 1
        /\ ~rc.result
        /\ ErrorCount = rc.before.err + 1
        /\ SuccessCount = rc.before.ok

\* C7 witness: the second item of a deletion run fails at once on an HTTP
\* status that is not retryable, after a first item that was trashed.
C7_Witness ==
    /\ rc.caller = "trash"
    /\ rc.idx = 2
    /\ rc.pc = "returned"
    /\ rc.first = "s404"
    /\ stats.trashed = 1
    /\ stats.errors = 1

\* C15: failure isolation per item: when an item ends in a terminal failure
\* (a non-retryable error or exhausted retries), every later item of the work
\* list is still attempted, and the success counter and the extracted data
\* of the items processed before it are what they were when the item began.
C15_FailureIsolation ==
    /\ (rc.caller \in Callers /\ rc.pc = "returned" /\ ~rc.result) =>
          /\ SuccessCount = rc.before.ok
          /\ rc.extracted = rc.before.extracted
          /\ ErrorCount \in {rc.before.err, rc.before.err + 1}
          /\ rc.idx < rc.n => ENABLED StartItem
    /\ (rc.caller \in Callers /\ rc.pc \in {"returned", "finished"}) =>
          rc.attempted = rc.idx
    /\ (rc.caller \in Callers /\ rc.pc = "finished") => rc.idx = rc.n

\* C15 witness: of two messages whose metadata is fetched, the first failed
\* for good and the second, fetched all the same, is the one in the cache.
C15_Witness ==
    /\ rc.caller = "meta"
    /\ rc.pc = "finished"
    /\ rc.n = 2
    /\ rc.extracted = <<2>>
    /\ stats.errors = 1

\* C22: the backoff slept before retry number k of an item (k = 0 for the
\* first retry) is min(maxBackoff, initialBackoff * 2^k) scaled by a jitter
\* factor in [0.9, 1.1]; the un-jittered base is non-decreasing in k and
\* never exceeds maxBackoff.
C22_BackoffBeforeRetry ==
    (rc.caller \in {"meta", "trash"} /\ rc.backoff_time > 0) =>
        LET k == rc.retry_count - 1
            base == Min(MaxBackoff, InitialBackoff * Pow2(k))
        IN  /\ rc.backoff = base
            /\ 10 * rc.backoff_time >= 9 * base
            /\ 10 * rc.backoff_time <= 11 * base
            /\ base <= MaxBackoff
            /\ k >= 1 => base >= Min(MaxBackoff, InitialBackoff * Pow2(k - 1))

\* What does hold: before the first retry the callers have already added one
\* to retry_count, so the base of retry k is min(maxBackoff,
\* initialBackoff * 2^(k+1)), 2 s for the first retry; the jitter and the
\* cap are as claimed.
BackoffBeforeRetryFromTwo ==
    (rc.caller \in {"meta", "trash"} /\ rc.backoff_time > 0) =>
        LET k == rc.retry_count - 1
            base == Min(MaxBackoff, InitialBackoff * Pow2(k + 1))
        IN  /\ rc.backoff = base
            /\ 10 * rc.backoff_time >= 9 * base
            /\ 10 * rc.backoff_time <= 11 * base
            /\ base <= MaxBackoff
            /\ base >= Min(MaxBackoff, InitialBackoff * Pow2(k))

\* the terminal states of the item state machine
TerminalStates ==
    {"SUCCESS", "RATE_LIMITED_EXHAUSTED", "TRANSIENT_EXHAUSTED", "NON_RETRYABLE"}

\* C18 (checked under SpecRetryFair): a run over a finite work list
\* terminates for every sequence of backend outcomes; each item's retry loop
\* ends in exactly one terminal state (SUCCESS, RATE_LIMITED_EXHAUSTED,
\* TRANSIENT_EXHAUSTED, NON_RETRYABLE) after at least one and at most
\* maxRetries + 1 attempts, and an item is PENDING again after an attempt
\* only while attempts remain.
C18_RunTerminates ==
    /\ [](rc.caller \in Callers =>
            /\ (rc.pc \in {"returned", "finished"} /\ rc.idx >= 1) =>
                  /\ rc.itemState \in TerminalStates
                  /\ rc.calls >= 1
                  /\ rc.calls <= MaxRetriesOf(rc.caller) + 1
                  /\ rc.result <=> rc.itemState = "SUCCESS"
            /\ rc.pc = "pending" =>
                  /\ rc.itemState = "PENDING"
                  /\ rc.calls < IF rc.caller = "stats" THEN StatsMaxRetries + 1
                                                       ELSE CleanerMaxRetries)
    /\ <>(rc.pc = "finished" /\ rc.idx = rc.n)

\* C18 witness: a deletion run over two messages has ended, the second
\* message having used up its attempts on retryable 403 answers.
C18_Witness ==
    /\ rc.caller = "trash"
    /\ rc.pc = "finished"
    /\ rc.n = 2
    /\ rc.itemState = "TRANSIENT_EXHAUSTED"
    /\ rc.calls = CleanerMaxRetries

\* how many times the event e occurs in the trace t
Occurrences(t, e) == Cardinality({i \in DOMAIN t : t[i] = e})

\* C19: in _process_single_message, with adaptive throttling enabled every
\* invocation of the remote operation, first attempt and retry alike, comes
\* right after exactly one throttler.wait(); with it disabled wait() is never
\* called; and a successful invocation is followed by exactly one
\* on_success() before the result is returned.
C19_WaitBeforeEveryCall ==
    (rc.caller = "stats" /\ rc.calls >= 1) =>
        /\ Occurrences(rc.trace, "get") = 1
        /\ CONFIG.adaptive_throttling =>
              /\ Occurrences(rc.trace, "wait") = 1
              /\ rc.trace[1] = "wait" /\ rc.trace[2] = "get"
        /\ ~CONFIG.adaptive_throttling =>
              /\ Occurrences(rc.trace, "wait") = 0
              /\ rc.trace[1] = "get"
        /\ rc.last = "ok" =>
              /\ Occurrences(rc.trace, "on_success") = 1
              /\ \E i \in 1..(Len(rc.trace) - 1) :
                    rc.trace[i] = "get" /\ rc.trace[i + 1] = "on_success"
              /\ rc.pc \in {"returned", "finished"} /\ rc.result
        /\ rc.last # "ok" => Occurrences(rc.trace, "on_success") = 0

\* C19 witness: with throttling enabled, a retry after a 429 succeeded: its
\* iteration waited once, called, and reported the success to the throttle.
C19_Witness ==
    /\ rc.caller = "stats"
    /\ CONFIG.adaptive_throttling
    /\ rc.retry_count = 1 /\ rc.calls = 2
    /\ rc.last = "ok"
    /\ rc.trace = <<"wait", "get", "on_success", "extract">>

\* C20: in _process_single_message a 429 answer calls on_rate_limit() once
\* and adds one to the local retry counter; while the counter is within
\* maxRetries the caller sleeps min(20, 2 * retryCount) more seconds and
\* retries; once the counter exceeds maxRetries it sleeps no more, adds one
\* to total_errors and returns failure.
C20_RateLimitHandling ==
    (rc.caller = "stats" /\ rc.calls >= 1 /\ rc.last = "s429") =>
        /\ Occurrences(rc.trace, "on_rate_limit") = 1
        /\ rc.retry_count = rc.calls
        /\ throttler.consecutive_failures >= 1
        /\ throttler.consecutive_successes = 0
        /\ rc.retry_count <= StatsMaxRetries =>
              /\ rc.pc = "pending"
              /\ rc.extra_wait = Min(2000, 200 * rc.retry_count)
              /\ rc.trace[Len(rc.trace)] = "sleep"
              /\ Occurrences(rc.trace, "sleep") = 1
              /\ analyzer.total_errors = rc.before.err
              /\ ENABLED AttemptStats("ok")
        /\ rc.retry_count > StatsMaxRetries =>
              /\ rc.pc \in {"returned", "finished"}
              /\ ~rc.result
              /\ rc.extra_wait = 0
              /\ Occurrences(rc.trace, "sleep") = 0
              /\ analyzer.total_errors = rc.before.err + 1
              /\ analyzer.total_processed = rc.before.ok

\* C20 witness: the second 429 for an item, after which the caller slept
\* 4 more seconds and is about to retry.
C20_Witness ==
    /\ rc.caller = "stats"
    /\ rc.last = "s429"
    /\ rc.retry_count = 2
    /\ rc.pc = "pending"
    /\ rc.extra_wait = 400

\* C21: in trash_single_message_with_retry and in
\* get_message_metadata_with_retry every transient-class error, HTTP 403,
\* 500 and 503 alike, is retried with exponential backoff and is never an
\* immediate terminal failure: the item fails for good on such an answer
\* only when it has exhausted its retries.
C21_TransientErrorsAreRetried ==
    (/\ rc.caller \in {"meta", "trash"}
     /\ rc.calls >= 1
     /\ rc.last \in {"s403", "s500", "s503"}) =>
        /\ rc.backoff > 0
        /\ rc.calls < CleanerMaxRetries => rc.pc = "pending"
        /\ rc.pc \in {"returned", "finished"} =>
              /\ rc.calls = CleanerMaxRetries
              /\ rc.itemState = "TRANSIENT_EXHAUSTED"
              /\ ~rc.result

\* The same for the answers each caller does retry (where it holds): 403,
\* 500 and 503 in the metadata fetch, 403 alone in the deletion.
RetriedTransientErrorsAreRetried ==
    (rc.caller = "meta" \/ (rc.caller = "trash" /\ rc.last = "s403")) =>
        C21_TransientErrorsAreRetried

(***************************************************************************)
(* Properties of the paginators (checked under SpecPaginate).              *)
(***************************************************************************)
RECURSIVE PagesWalked(_, _)
\* the number of pages, from page k on, an uncapped walk collects: it stops
\* at the first page without items and after the last page
PagesWalked(sizes, k) ==
    IF k > Len(sizes) \/ sizes[k] = 0 THEN 0 ELSE 1 + PagesWalked(sizes, k + 1)

\* the total number of items the backend returns over all pages of a walk
Available(sizes) == SumTo(sizes, PagesWalked(sizes, 1))

\* the first page with which the items listed so far number at least c
CapPage(sizes, c) ==
    CHOOSE k \in 1..Len(sizes) :
        /\ SumTo(sizes, k) >= c
        /\ \A j \in 1..(k - 1) : SumTo(sizes, j) < c

\* C8: count_emails with a cap C smaller than the number of items the
\* backend returns over all pages ends its listing with exactly C items, the
\* first C of the concatenated pages in order, and has requested no page after
\* the one on which the cap was reached (no listing call having failed).
C8_CapReturnsFirstCapItems ==
    (/\ pg.who = "stats"
     /\ pg.pc \in {"processing", "empty"}
     /\ pg.failedAt = 0
     /\ pg.max_emails # <<>>
     /\ pg.max_emails[1] < Available(pg.pages)) =>
        /\ pg.all_messages = Range(1, pg.max_emails[1])
        /\ pg.requests = CapPage(pg.pages, pg.max_emails[1])

\* The same for the caps C >= 1 (where it does hold).
PositiveCapReturnsFirstCapItems ==
    (pg.max_emails # <<>> /\ pg.max_emails[1] >= 1) => C8_CapReturnsFirstCapItems

\* C9: when the list call for page k raises, whatever it raises, pagination
\* stops with no further page requested, and the items of pages 1..k-1 are
\* what the paginator hands on: they go on to be processed.
C9_ListingFailureKeepsPartial ==
    (pg.who \in Paginators /\ pg.failedAt > 0) =>
        /\ pg.pc \in {"processing", "empty"}
        /\ pg.requests = pg.failedAt
        /\ pg.all_messages = Range(1, SumTo(pg.pages, pg.failedAt - 1))
        /\ pg.all_messages # <<>> => pg.pc = "processing"

\* The same for the failures that are HttpErrors (where it does hold).
HttpListingFailureKeepsPartial ==
    pg.failure = "http" => C9_ListingFailureKeepsPartial

\* one of the stop conditions holds of the latest response: it had no
\* items, the cap is reached, it carried no next cursor, or the call raised
StopCondition ==
    \/ pg.lastEmpty
    \/ pg.who = "stats" /\ pg.max_emails # <<>>
          /\ Len(pg.all_messages) >= pg.max_emails[1]
    \/ pg.returned = 0
    \/ pg.failedAt > 0

\* C28: pagination stops exactly when a page returns no items, the cap is
\* reached, no next cursor is returned or a listing error occurs; it never
\* requests a page after a response without nextPageToken, and every request
\* after the first carries the cursor the previous response returned.
C28_PaginationStopsExactlyWhen ==
    (pg.who \in Paginators /\ pg.requests >= 1) =>
        /\ pg.pc # "listing" <=> StopCondition
        /\ pg.requests = 1 => pg.sent = 0
        /\ pg.requests >= 2 =>
              /\ pg.prevReturned # 0
              /\ pg.sent = pg.prevReturned

\* The same for every cap but 0 (where it does hold).
PaginationStopsExactlyWhenCapNotZero ==
    pg.max_emails # <<0>> => C28_PaginationStopsExactlyWhen

\* C29: in both paginators a short fixed delay is applied between every two
\* consecutive listing requests: whenever a further page is to be requested,
\* the loop has slept since the latest response.
C29_DelayBetweenListingRequests ==
    (pg.who \in Paginators /\ pg.pc = "listing" /\ pg.requests >= 1) =>
        pg.slept > 0

\* What does hold: _fetch_all_message_ids sleeps sleep_after_list between
\* two requests; count_emails sleeps nothing.
OnlyCleanerDelaysBetweenListingRequests ==
    (pg.who \in Paginators /\ pg.pc = "listing" /\ pg.requests >= 1) =>
        pg.slept = IF pg.who = "cleaner" THEN SleepAfterList ELSE 0

\* the error counter of the run the paginator belongs to
run_errors ==
    IF pg.who = "stats" THEN analyzer.total_errors ELSE stats.errors

\* C30: no error is silent: a listing call that failed during pagination (and
\* is not retried) has increased the error counter of the run by at least one.
C30_FailedListingIsCounted ==
    (pg.who \in Paginators /\ pg.failure = "http") => run_errors >= 1

\* What the code does: the handler of a failed listing call logs and breaks,
\* and the error counter of the run stays where it was.
FailedListingIsOnlyLogged ==
    (pg.who \in Paginators /\ pg.failure = "http") => run_errors = 0

(***************************************************************************)
(* Properties of trash_emails_batch (checked under SpecBatch).             *)
(***************************************************************************)
RECURSIVE Flatten(_)
\* the concatenation of a sequence of sequences
Flatten(ss) == IF ss = <<>> THEN <<>> ELSE Head(ss) \o Flatten(Tail(ss))

\* ceil(n / b)
CeilDiv(n, b) == (n + b - 1) \div b

\* C10: trash_emails_batch over n items with batch size b issues exactly
\* ceil(n/b) batch requests; every batch but the last holds exactly b items,
\* the last holds the remainder, and the batches in order make up the input
\* list, every item in exactly one batch (25 items with b = 10: 10, 10, 5).
C10_BatchesPartitionInput ==
    bt.pc = "done" =>
        /\ Len(bt.batches) = CeilDiv(bt.n, bt.batch_size)
        /\ \A k \in 1..(Len(bt.batches) - 1) :
              Len(bt.batches[k]) = bt.batch_size
        /\ bt.batches # <<>> =>
              Len(bt.batches[Len(bt.batches)]) =
                 bt.n - bt.batch_size * (Len(bt.batches) - 1)
        /\ \A k \in 1..Len(bt.batches) :
              Len(bt.batches[k]) >= 1 /\ Len(bt.batches[k]) <= bt.batch_size
        /\ Flatten(bt.batches) = Range(1, bt.n)
        /\ (bt.n = 25 /\ bt.batch_size = 10) =>
              /\ Len(bt.batches) = 3
              /\ Len(bt.batches[1]) = 10
              /\ Len(bt.batches[2]) = 10
              /\ Len(bt.batches[3]) = 5

\* C10 witness: 25 items in batches of 10, one request of 10 items raising.
C10_Witness ==
    /\ bt.pc = "done"
    /\ bt.n = 25 /\ bt.batch_size = 10
    /\ Len(bt.batches) = 3
    /\ bt.raised = 1
    /\ bt.trashed_count_in_batch = 15

\* C27: in trash_emails_batch a pacing delay of delayBetweenRequests occurs
\* between every two consecutive batch submissions, whether the earlier
\* batch succeeded or raised: whenever a further batch is to be submitted,
\* the iteration before it has slept the delay.
C27_PacingBetweenBatches ==
    (bt.pc = "loop" /\ Len(bt.batches) >= 1) =>
        bt.slept = DelayBetweenRequests

\* What does hold: the delay is slept after the batches whose request
\* returned, and only after those.
PacingAfterSucceededBatches ==
    Len(bt.batches) >= 1 =>
        /\ bt.last = "ok" => bt.slept = DelayBetweenRequests
        /\ bt.last = "raise" => bt.slept = 0

\* C11: trash_emails_batch raises the trashed counter by exactly the sum of
\* the sizes of the batches whose request did not raise: a succeeding batch
\* credits all of its items, a raising batch none, and the batches after a
\* raising one are still submitted (all ceil(n/b) of them, covering the list).
C11_TrashedIsSumOfSucceededBatches ==
    /\ bt.pc = "done" =>
          /\ stats.trashed - bt.before.trashed = bt.okItems
          /\ bt.okItems + bt.raisedItems = bt.n
          /\ Len(bt.batches) = CeilDiv(bt.n, bt.batch_size)
    /\ bt.pc = "loop" =>
          /\ bt.trashed_count_in_batch = bt.okItems
          /\ bt.okItems + bt.raisedItems = bt.i
          /\ stats.trashed = bt.before.trashed

\* C11 witness: 25 items in batches of 10; the first two requests raise and
\* the third, submitted all the same, credits its 5 items.
C11_Witness ==
    /\ bt.pc = "done"
    /\ bt.n = 25 /\ bt.batch_size = 10
    /\ bt.raised = 2
    /\ Len(bt.batches) = 3
    /\ stats.trashed - bt.before.trashed = 5

\* C12: every batch request that raises adds exactly one to the error
\* counter: after a run in which no sub-request was reported as failed, the
\* error counter has risen by the number of raising batches (25 items, batch
\* size 10, second batch raises: trashed = 15 and errors = 1).
C12_RaisingBatchCountsOneError ==
    (bt.pc = "done" /\ bt.subErrors = 0) =>
        stats.errors - bt.before.errors = bt.raised

\* What the error counter does count in trash_emails_batch: the sub-requests
\* batch_callback was given an exception for, and nothing else.
BatchErrorsAreCallbackErrors ==
    bt.pc \in {"loop", "done"} =>
        stats.errors - bt.before.errors = bt.subErrors

(***************************************************************************)
(* Properties of trash_emails_interactive (checked under SpecInteractive). *)
(***************************************************************************)
\* C13: the batched mutation path is taken only when batch deletion is
\* enabled and the number of items to delete exceeds the threshold of 10;
\* for every count at or below the threshold the items are deleted one by
\* one through trash_single_message_with_retry.
C13_BatchOnlyAboveThreshold ==
    ia.path # "none" =>
        /\ ia.path = "batch" =>
              ia.use_batch_delete /\ ia.to_delete > MinBatchCount
        /\ ia.to_delete <= MinBatchCount =>
              /\ ia.path = "single"
              /\ rc.caller = "trash" /\ rc.n = ia.to_delete
              /\ bt.pc = "idle"

\* C13 as the code has it: the batched path is taken exactly when batch
\* deletion is enabled and at least 10 items are to be deleted; below 10, or
\* with batch deletion disabled, the items are deleted one by one through
\* trash_single_message_with_retry.
BatchFromThresholdOn ==
    ia.path # "none" =>
        /\ ia.path = "batch" <=>
              (ia.use_batch_delete /\ ia.to_delete >= MinBatchCount)
        /\ ia.path = "batch" =>
              /\ bt.pc # "idle" /\ bt.n = ia.to_delete
              /\ rc = NoCaller
        /\ (ia.to_delete < MinBatchCount \/ ~ia.use_batch_delete) =>
              /\ ia.path = "single"
              /\ rc.caller = "trash" /\ rc.n = ia.to_delete
              /\ bt.pc = "idle" /\ bt.batches = <<>>

\* C13 witness: exactly 10 items to delete (11 found, the latest one kept)
\* went through trash_emails_batch.
C13_Witness ==
    /\ ia.pc = "done"
    /\ ia.total = 11 /\ ia.action = "c" /\ ia.keep_count = 1
    /\ ia.to_delete = MinBatchCount
    /\ ia.path = "batch"
    /\ bt.pc = "done" /\ Len(bt.batches) = 1
    /\ stats.trashed = 10

(***************************************************************************)
(* Properties of the processing core as a whole (checked under SpecCore).  *)
(***************************************************************************)
\* C14: run over an empty work list, the processing core (the chunk loop of
\* count_emails and _process_chunk, trash_emails_batch, the one-by-one
\* deletion loop) issues no get/mutate call, changes no run counter and
\* leaves the throttle state as it was.
C14_EmptyWorkListDoesNothing ==
    /\ (rc.caller \in Callers /\ rc.n = 0) =>
          /\ rc.attempted = 0 /\ rc.calls = 0 /\ rc.idx = 0
          /\ rc.trace = <<>> /\ rc.extracted = <<>>
          /\ analyzer = GmailAnalyzer
          /\ stats = GmailCleanerPro
          /\ throttler = AdaptiveThrottler(CONFIG)
    /\ (bt.pc # "idle" /\ bt.n = 0) =>
          /\ bt.pc \in {"start", "done"}
          /\ bt.batches = <<>>
          /\ analyzer = GmailAnalyzer
          /\ stats = GmailCleanerPro
          /\ throttler = AdaptiveThrottler(CONFIG)

\* C14 witness: the loop of _process_chunk has ended over an empty list.
C14_Witness ==
    /\ rc.caller = "stats"
    /\ rc.n = 0
    /\ rc.pc = "finished"

(***************************************************************************)
(* Properties of the interactive loop (checked under SpecRounds).          *)
(***************************************************************************)
\* C16: every run counter (total_processed, total_errors; trashed, errors,
\* skipped, backed_up) is monotonically non-decreasing over the life of one
\* process, across successive clean-up rounds of the interactive loop: no
\* step lowers a counter.
C16_CountersNeverDecrease ==
    [][/\ analyzer'.total_processed >= analyzer.total_processed
       /\ analyzer'.total_errors >= analyzer.total_errors
       /\ stats'.trashed >= stats.trashed
       /\ stats'.errors >= stats.errors
       /\ stats'.skipped >= stats.skipped
       /\ stats'.backed_up >= stats.backed_up]_vars

\* What does hold: no step lowers a counter other than skipped.
CountersButSkippedNeverDecrease ==
    [][/\ analyzer'.total_processed >= analyzer.total_processed
       /\ analyzer'.total_errors >= analyzer.total_errors
       /\ stats'.trashed >= stats.trashed
       /\ stats'.errors >= stats.errors
       /\ stats'.backed_up >= stats.backed_up]_vars

(***************************************************************************)
(* Properties of the chunk loop of count_emails (checked under SpecChunks).*)
(***************************************************************************)
\* C25: the chunk driver of count_emails hands every item of the work list
\* to _process_single_message exactly once, in list order, whatever the
\* chunk size (>= 1) and the outcomes of earlier items; the chunks are
\* contiguous, disjoint and cover the list.
C25_EveryItemOnceInOrder ==
    /\ Len(rc.fed) <= Len(pg.all_messages)
    /\ rc.fed = SubSeq(pg.all_messages, 1, Len(rc.fed))
    /\ Len(Flatten(pg.chunks)) <= Len(pg.all_messages)
    /\ Flatten(pg.chunks) = SubSeq(pg.all_messages, 1, Len(Flatten(pg.chunks)))
    /\ \A k \in 1..Len(pg.chunks) :
          /\ Len(pg.chunks[k]) >= 1
          /\ Len(pg.chunks[k]) <= CONFIG.chunk_size
          /\ k < Len(pg.chunks) => Len(pg.chunks[k]) = CONFIG.chunk_size
    /\ pg.pc = "processing" => rc.fed = Flatten(pg.chunks)
    /\ pg.pc = "finished" =>
          /\ rc.fed = pg.all_messages
          /\ Flatten(pg.chunks) = pg.all_messages
          /\ Len(pg.chunks) = CeilDiv(Len(pg.all_messages), CONFIG.chunk_size)

\* C25 witness: five messages in chunks of two (2, 2, 1), all handed over
\* although two of them failed.
C25_Witness ==
    /\ pg.pc = "finished"
    /\ CONFIG.chunk_size = 2
    /\ Len(pg.chunks) = 3
    /\ rc.fed = <<1, 2, 3, 4, 5>>
    /\ analyzer.total_errors = 2
    /\ analyzer.total_processed = 3

\* C26: the throughput line logged every 5 chunks is pure observation: the
\* step that logs it leaves total_processed, total_errors, the extracted
\* data and the throttle state unchanged, and moves the loop on exactly as
\* the same step does when no line is logged, so the remote calls that
\* follow are the same.
C26_SnapshotIsPureObservation ==
    [][pg'.snapshots # pg.snapshots =>
          /\ snapshot_due(pg'.processed_chunks)
          /\ analyzer' = analyzer
          /\ throttler' = throttler
          /\ stats' = stats
          /\ rc' = rc
          /\ CONFIG' = CONFIG
          /\ [pg' EXCEPT !.snapshots = pg.snapshots] =
                [pg EXCEPT !.processed_chunks = @ + 1,
                           !.i = @ + CONFIG.chunk_size,
                           !.pc = "processing"]]_vars

\* C26 witness: the line logged after the fifth chunk of a run in which a
\* message had failed, showing the four messages processed.
C26_Witness ==
    /\ pg.processed_chunks = 5
    /\ Len(pg.snapshots) = 1
    /\ pg.snapshots[1].chunk = 5
    /\ pg.snapshots[1].processed = 4
    /\ analyzer.total_processed = 4
    /\ analyzer.total_errors = 1

\* the items of the run whose processing has completed
completed_items ==
    IF rc.pc = "pending" THEN Len(rc.fed) - 1 ELSE Len(rc.fed)

\* C33: in gmail-stats, at every point between two items of a run (and at
\* every other point), total_processed + total_errors equals the number of
\* items whose processing has completed; after a run over n items the sum
\* is n, for every sequence of backend outcomes.
C33_CountersSumToCompletedItems ==
    (pg.who = "stats" /\ pg.pc \in {"processing", "chunk", "finished"}) =>
        /\ analyzer.total_processed + analyzer.total_errors = completed_items
        /\ pg.pc = "finished" =>
              analyzer.total_processed + analyzer.total_errors
                 = Len(pg.all_messages)

\* C33 witness: a run over several chunks has ended with items of both
\* kinds, one of them failed after exhausting its retries on 429.
C33_Witness ==
    /\ pg.who = "stats" /\ pg.pc = "finished"
    /\ Len(pg.chunks) >= 2
    /\ analyzer.total_processed >= 1
    /\ analyzer.total_errors >= 2
    /\ throttler.consecutive_failures >= 4

\* C35: when dry_run is set, trash_emails_interactive issues no trash call
\* (neither single nor batch), leaves the trashed counter unchanged and
\* accounts all presented messages as skipped, for every list of messages.
C35_DryRunTrashesNothing ==
    (ia.pc # "idle" /\ ia.dry_run) =>
        /\ ia.pc \in {"prompt", "done"}
        /\ rc.caller = "none" /\ rc.attempted = 0 /\ rc.calls = 0
        /\ bt.pc = "idle" /\ bt.batches = <<>>
        /\ ia.pc = "done" =>
              /\ stats.trashed = ia.before.trashed
              /\ stats.errors = ia.before.errors
              /\ ia.total > 0 => stats.skipped = ia.total

\* C35 witness: a dry run over a list long enough for the batch path has
\* returned.
C35_Witness ==
    /\ ia.dry_run /\ ia.use_batch_delete
    /\ ia.pc = "done"
    /\ ia.total >= MinBatchCount
    /\ stats.skipped = ia.total

\* C36: after trash_emails_batch over n items no item is counted both as
\* trashed and as an error: the increase of trashed plus the increase of
\* errors is at most n, also when sub-requests of a batch fail and are
\* reported through the batch callback while the batch itself does not raise
\* (checked under SpecBatch).
C36_NoItemCountedTwice ==
    bt.pc = "done" =>
        (stats.trashed - bt.before.trashed) + (stats.errors - bt.before.errors)
           <= bt.n

\* What the code does: every item of a batch that did not raise is counted
\* as trashed, and each of its sub-requests the callback reported as failed
\* is counted as an error on top of that.
FailedSubRequestsCountedTwice ==
    bt.pc = "done" =>
        /\ stats.trashed - bt.before.trashed = bt.okItems
        /\ stats.errors - bt.before.errors = bt.subErrors
        /\ bt.subErrors = 0 => C36_NoItemCountedTwice

\* The selection of the custom branch: the keep count is within [0, total],
\* the first total - keep_count messages are selected, and only they are
\* submitted for deletion, in order.
CustomSelection ==
    /\ 0 <= ia.keep_count /\ ia.keep_count <= ia.total
    /\ ia.to_delete = ia.total - ia.keep_count
    /\ Len(rc.fed) <= ia.to_delete
    /\ rc.fed = Range(1, Len(rc.fed))
    /\ (ia.pc = "done" /\ ia.path = "single") => rc.fed = Range(1, ia.to_delete)

\* C37: in the custom branch of trash_emails_interactive with a requested
\* keep count k, k is clamped to [0, total], the messages selected for
\* deletion are exactly the first total - k of the list in order, the last k
\* are never submitted for deletion, and the number selected plus the number
\* added to skipped equals total (checked under SpecRounds).
C37_CustomKeepsLastK ==
    (ia.action = "c" /\ ia.pc \in {"deleting", "done"}) =>
        /\ CustomSelection
        /\ ia.pc = "done" =>
              ia.to_delete + (stats.skipped - ia.before.skipped) = ia.total

\* What does hold: the selection is as stated; keep_count is added to
\* skipped when something is deleted, and when every message is kept the
\* skipped counter is set to total, whatever it was.
CustomKeepsLastKSkippedAssigned ==
    (ia.action = "c" /\ ia.pc \in {"deleting", "done"}) =>
        /\ CustomSelection
        /\ ia.pc = "done" =>
              IF ia.to_delete > 0
                THEN stats.skipped - ia.before.skipped = ia.keep_count
                ELSE stats.skipped = ia.total

(***************************************************************************)
(* Properties of find_emails_by_criteria (checked under SpecFind).         *)
(***************************************************************************)
\* The result of a search: none of its messages is of an earlier search, it
\* holds the messages of this search whose fetch returned a tuple with a
\* parsed date, and it is in ascending order of date.
ResultOfThisSearch ==
    /\ \A j \in DOMAIN pg.result :
          /\ pg.result[j].id \notin pg.earlier
          /\ \E k \in DOMAIN pg.ids :
                /\ pg.ids[k] = pg.result[j].id
                /\ pg.fetched[k] = <<pg.result[j].dt>>
                /\ pg.result[j].dt # DatetimeMin
    /\ \A k \in DOMAIN pg.ids :
          (pg.fetched[k] # <<>> /\ pg.fetched[k] # <<DatetimeMin>>) =>
             \E j \in DOMAIN pg.result : pg.result[j].id = pg.ids[k]
    /\ \A j1, j2 \in DOMAIN pg.result :
          j1 < j2 => pg.result[j1].dt <= pg.result[j2].dt

\* C38: find_emails_by_criteria starts every search from an empty cache, so
\* no message of an earlier search appears in a later result; the result
\* holds only messages whose metadata fetch succeeded and whose date parsed,
\* sorted by date ascending, and the found counter equals the length of the
\* result.
C38_SearchResultIsFresh ==
    (pg.who = "find" /\ pg.pc = "returned") =>
        /\ ResultOfThisSearch
        /\ stats.found = Len(pg.result)

\* What does hold: the result is as stated, and the found counter is the
\* length of the result of the latest search that listed an id.
FoundCounterOfLatestNonEmptyListing ==
    (pg.who = "find" /\ pg.pc = "returned") =>
        /\ ResultOfThisSearch
        /\ pg.ids # <<>> => stats.found = Len(pg.result)
        /\ pg.ids = <<>> => pg.result = <<>>

(***************************************************************************)
(* Properties of main() of gmail-stats.py (checked under SpecMain).        *)
(***************************************************************************)
\* C31: a user interrupt during processing never ends the process without
\* the final report: once the interrupt has ended the run, the final
\* statistics have been printed with the counters accumulated so far.
C31_InterruptReachesFinalReport ==
    pg.main = "interrupted" => pg.report = <<get_statistics>>

\* What the code does: the interrupt ends the process with no final report,
\* and only a run that was not interrupted prints the counters.
InterruptEndsWithoutReport ==
    /\ pg.main = "interrupted" => pg.report = <<>>
    /\ pg.main = "returned 0" => pg.report = <<get_statistics>>


==========================================================================
